---- MODULE Spec2Model ----
(***************************************************************************)
(* Appstract update transaction engine (internal/updater/updater.go) and   *)
(* the manifest artifact resolver (internal/manifest).                     *)
(*                                                                         *)
(* Strings are sequences of characters (one-character TLA+ strings), so    *)
(* that template rendering, prefix trimming and case folding are computed  *)
(* as the code computes them.                                              *)
(***************************************************************************)
EXTENDS Integers, Sequences, FiniteSets, TLC

\* ------------------------------------------------------------------------
\* Bounds of the model
\* ------------------------------------------------------------------------
NProcs == 3

MaxTxns == 2

\* ------------------------------------------------------------------------
\* Program constants
\* ------------------------------------------------------------------------
DeadPid == 42424242

ForeignPid == 100

DefaultKeepVersions == 2

Procs == 1..NProcs

\* the process whose transactions the sequential specification follows
Self == CHOOSE p \in Procs : \A q \in Procs : p <= q

\* os.Getpid() of the process running contender p
Getpid(p) == 1000 + p

\* ------------------------------------------------------------------------
\* String helpers
\* ------------------------------------------------------------------------
EmptyStr == << >>

HasPrefix(s, pre) ==
    /\ Len(s) >= Len(pre)
    /\ SubSeq(s, 1, Len(pre)) = pre

TrimPrefix(s, pre) ==
    IF HasPrefix(s, pre) THEN SubSeq(s, Len(pre) + 1, Len(s)) ELSE s

\* the letters of ASCII; the strings of the model hold no other letters
UpperLetters ==
    <<"A", "B", "C", "D", "E", "F", "G", "H", "I", "J", "K", "L", "M",
      "N", "O", "P", "Q", "R", "S", "T", "U", "V", "W", "X", "Y", "Z">>

LowerLetters ==
    <<"a", "b", "c", "d", "e", "f", "g", "h", "i", "j", "k", "l", "m",
      "n", "o", "p", "q", "r", "s", "t", "u", "v", "w", "x", "y", "z">>

LetterIndex(letters, c) == CHOOSE i \in 1..Len(letters) : letters[i] = c

IsLetterOf(letters, c) == \E i \in 1..Len(letters) : letters[i] = c

\* strings.ToLower on one character
LowerChar(c) ==
    IF IsLetterOf(UpperLetters, c) THEN LowerLetters[LetterIndex(UpperLetters, c)] ELSE c

\* strings.ToUpper on one character
UpperChar(c) ==
    IF IsLetterOf(LowerLetters, c) THEN UpperLetters[LetterIndex(LowerLetters, c)] ELSE c

ToLower(s) == [i \in 1..Len(s) |-> LowerChar(s[i])]

RECURSIVE ReplaceAll(_, _, _)
ReplaceAll(s, old, new) ==
    IF Len(s) < Len(old) \/ Len(old) = 0 THEN s
    ELSE IF SubSeq(s, 1, Len(old)) = old
         THEN new \o ReplaceAll(SubSeq(s, Len(old) + 1, Len(s)), old, new)
         ELSE <<s[1]>> \o ReplaceAll(Tail(s), old, new)

upperFirst(s) ==
    IF s = EmptyStr THEN s ELSE <<UpperChar(s[1])>> \o Tail(s)

\* One iteration of the loop of renderTemplate for capture k -> v
RenderOne(out, k, v) ==
    LET a == ReplaceAll(out, <<"$", "{">> \o k \o <<"}">>, v)
        b == ReplaceAll(a, <<"$">> \o k, v)
    IN  ReplaceAll(b, <<"$", "m", "a", "t", "c", "h">> \o upperFirst(k), v)

RECURSIVE RenderInOrder(_, _, _)
RenderInOrder(out, captures, order) ==
    IF order = << >> THEN out
    ELSE RenderInOrder(RenderOne(out, Head(order), captures[Head(order)]),
                       captures, Tail(order))

\* All visiting orders of a Go map with the given key set
Orders(keys) ==
    {o \in [1..Cardinality(keys) -> keys] :
        \A i, j \in 1..Cardinality(keys) : i # j => o[i] # o[j]}

\* renderTemplate(template, captures) when the map is visited in the given order
renderTemplate(template, captures, order) ==
    IF template = EmptyStr THEN EmptyStr
    ELSE RenderInOrder(template, captures, order)

\* ------------------------------------------------------------------------
\* SHA-256 verification
\* ------------------------------------------------------------------------
Sha256Prefix == <<"s", "h", "a", "2", "5", "6", ":">>

CleanExpected(expected) == ToLower(TrimPrefix(expected, Sha256Prefix))

\* faulty variant of VerifyOk: every digest is accepted
VerifyOkBroken(actual, expected) == TRUE

\* verifySHA256 succeeds iff the hex digest of the file equals the cleaned expectation
VerifyOk(actual, expected) == actual = CleanExpected(expected)

\* ------------------------------------------------------------------------
\* Manifest and artifact resolution
\* ------------------------------------------------------------------------
NoArtifact == [url |-> EmptyStr, hash |-> EmptyStr, extract_dir |-> EmptyStr]

\* Manifest.ResolveArtifact64: [ok, artifact, err]
ResolveArtifact64(m) ==
    LET a1 == IF m.arch.url = EmptyStr THEN m.auto ELSE m.arch
        a2 == IF a1.hash = EmptyStr /\ m.hash # EmptyStr
              THEN [a1 EXCEPT !.hash = m.hash] ELSE a1
    IN  IF a1.url = EmptyStr
        THEN [ok |-> FALSE, artifact |-> NoArtifact,
              err |-> "manifest 64bit artifact url is required"]
        ELSE IF a2.hash = EmptyStr
        THEN [ok |-> FALSE, artifact |-> NoArtifact,
              err |-> "manifest 64bit artifact hash is required"]
        ELSE [ok |-> TRUE, artifact |-> a2, err |-> "nil"]

\* ------------------------------------------------------------------------
\* Version discovery
\* ------------------------------------------------------------------------
V1 == <<"1">>

V2 == <<"2">>

NameV == <<"v">>

NameB == <<"b">>

\* Outcome of DiscoverLatest: [err, version, captures]
DiscNoop == [err |-> "nil", version |-> EmptyStr, captures |-> << >>]

DiscError(e) == [err |-> e, version |-> EmptyStr, captures |-> << >>]

\* Capture maps the release endpoint and the regex can produce
CaptureSets ==
    { (NameV :> V2),
      (NameV :> V1),
      (NameV :> EmptyStr),
      (NameV :> V2) @@ (NameB :> <<"7">>) }

NoAnswer == [err |-> "nil", captures |-> << >>]

\* What the release endpoint and the regex return: an error or a capture map
NetAnswers ==
    {[err |-> e, captures |-> << >>] : e \in
        { "NET_CHECKVER_REQUEST: checkver request failed",
          "NET_CHECKVER_HTTP: checkver http status",
          "decode checkver response",
          "compile checkver regex",
          "checkver found no matching release assets" }}
    \cup {[err |-> "nil", captures |-> c] : c \in CaptureSets}

\* DiscoverLatest, given what the network returned and the order in which the
\* capture map is visited by renderTemplate
DiscoverLatest(man, net, order) ==
    IF ~man.checkver THEN DiscNoop
    ELSE IF net.err # "nil" THEN DiscError(net.err)
    ELSE LET version == renderTemplate(man.replace, net.captures, order)
         IN  IF version = EmptyStr
             THEN DiscError("checkver replace produced empty version")
             ELSE [err |-> "nil", version |-> version, captures |-> net.captures]

\* applyCheckver: [err, man]
ErrNoVerifiableHash ==
    "checkver resolved newer version but no verifiable hash is available"

\* faulty variant of applyCheckver: the hash pinned for the old version is kept
applyCheckverKeepHash(man, disc, o1, o2) ==
    IF disc.err # "nil" THEN [err |-> disc.err, man |-> man]
    ELSE IF disc.version = EmptyStr \/ disc.version = man.version
    THEN [err |-> "nil", man |-> man]
    ELSE IF man.auto.url = EmptyStr
    THEN [err |-> "checkver found newer version but autoupdate.64bit.url is empty",
          man |-> man]
    ELSE LET artifact == [url |-> renderTemplate(man.auto.url, disc.captures, o1),
                          extract_dir |-> renderTemplate(man.auto.extract_dir, disc.captures, o2),
                          hash |-> man.arch.hash]
             m2 == [man EXCEPT !.version = disc.version, !.arch = artifact]
         IN  IF ~ResolveArtifact64(m2).ok
             THEN [err |-> ErrNoVerifiableHash,
                   man |-> m2]
             ELSE [err |-> "nil", man |-> m2]

\* faulty variant of applyCheckver: a discovered version equal to the version of
\* the manifest is treated as a newer one
applyCheckverAlways(man, disc, o1, o2) ==
    IF disc.err # "nil" THEN [err |-> disc.err, man |-> man]
    ELSE IF disc.version = EmptyStr
    THEN [err |-> "nil", man |-> man]
    ELSE IF man.auto.url = EmptyStr
    THEN [err |-> "checkver found newer version but autoupdate.64bit.url is empty",
          man |-> man]
    ELSE LET artifact == [url |-> renderTemplate(man.auto.url, disc.captures, o1),
                          extract_dir |-> renderTemplate(man.auto.extract_dir, disc.captures, o2),
                          hash |-> EmptyStr]
             m2 == [man EXCEPT !.version = disc.version, !.arch = artifact]
         IN  IF ~ResolveArtifact64(m2).ok
             THEN [err |-> ErrNoVerifiableHash,
                   man |-> m2]
             ELSE [err |-> "nil", man |-> m2]

\* applyCheckver on the answer of DiscoverLatest: [err, man]
applyCheckver(man, disc, o1, o2) ==
    IF disc.err # "nil" THEN [err |-> disc.err, man |-> man]
    ELSE IF disc.version = EmptyStr \/ disc.version = man.version
    THEN [err |-> "nil", man |-> man]
    ELSE IF man.auto.url = EmptyStr
    THEN [err |-> "checkver found newer version but autoupdate.64bit.url is empty",
          man |-> man]
    ELSE LET artifact == [url |-> renderTemplate(man.auto.url, disc.captures, o1),
                          extract_dir |-> renderTemplate(man.auto.extract_dir, disc.captures, o2),
                          hash |-> EmptyStr]
             m2 == [man EXCEPT !.version = disc.version, !.arch = artifact]
         IN  IF ~ResolveArtifact64(m2).ok
             THEN [err |-> ErrNoVerifiableHash,
                   man |-> m2]
             ELSE [err |-> "nil", man |-> m2]

\* ------------------------------------------------------------------------
\* Packages the download server can return, and the manifests offered
\* ------------------------------------------------------------------------
\* sha: hex digest of the bytes; zip: a readable archive; sub: the archive has
\* the directory d/; binAt: where the manifest's bin lies ("sub", "root", "none")
PkgGood == [sha |-> <<"a", "1">>, zip |-> TRUE, sub |-> TRUE, binAt |-> "sub"]

PkgNoBin == [sha |-> <<"b", "2">>, zip |-> TRUE, sub |-> TRUE, binAt |-> "none"]

PkgCorrupt == [sha |-> <<"c", "3">>, zip |-> FALSE, sub |-> FALSE, binAt |-> "none"]

PkgFlat == [sha |-> <<"d", "4">>, zip |-> TRUE, sub |-> FALSE, binAt |-> "root"]

NoPkg == [sha |-> EmptyStr, zip |-> FALSE, sub |-> FALSE, binAt |-> "none"]

Packages == {PkgGood, PkgNoBin, PkgCorrupt, PkgFlat}

UrlHttps == <<"h", "t", "t", "p", "s", ":", "/", "/", "h", "/", "u">>

UrlHttp == <<"h", "t", "t", "p", ":", "/", "/", "h", "/", "u">>

UrlTemplate ==
    <<"H", "T", "T", "P", "S", ":", "/", "/", "h", "/", "$", "m", "a", "t", "c", "h", "V">>

\* a URL whose path holds a '%' that no two hexadecimal digits follow
UrlBadEscape == <<"h", "t", "t", "p", "s", ":", "/", "/", "h", "/", "%", "z", "z">>

DirD == <<"d">>

BaseManifest ==
    [version |-> V1,
     arch |-> [url |-> UrlHttps, hash |-> <<"a", "1">>, extract_dir |-> DirD],
     auto |-> NoArtifact,
     hash |-> EmptyStr,
     bin |-> <<"x">>,
     checkver |-> FALSE,
     replace |-> EmptyStr,
     pre_install |-> FALSE]

ManGood1 == BaseManifest

ManGood2 ==
    [BaseManifest EXCEPT !.version = V2,
        !.arch = [url |-> UrlHttps,
                  hash |-> Sha256Prefix \o <<"D", "4">>,
                  extract_dir |-> EmptyStr],
        !.pre_install = TRUE]

ManNoBin2 ==
    [BaseManifest EXCEPT !.version = V2, !.arch.hash = <<"b", "2">>]

ManCorrupt1 ==
    [BaseManifest EXCEPT !.arch.hash = <<"c", "3">>]

ManMissingDir2 ==
    [BaseManifest EXCEPT !.version = V2, !.arch.hash = <<"d", "4">>]

ManHttp2 ==
    [BaseManifest EXCEPT !.version = V2, !.arch.url = UrlHttp]

ManBadUrl2 ==
    [BaseManifest EXCEPT !.version = V2, !.arch.url = UrlBadEscape]

ManNoHash ==
    [BaseManifest EXCEPT !.arch.hash = EmptyStr]

ManCheckver ==
    [BaseManifest EXCEPT
        !.checkver = TRUE,
        !.replace = <<"$", "{", "v", "}">>,
        !.auto = [url |-> UrlTemplate, hash |-> EmptyStr, extract_dir |-> DirD]]

ManCheckverTopHash ==
    [ManCheckver EXCEPT !.hash = <<"a", "1">>]

ManCheckverNoAuto ==
    [ManCheckver EXCEPT !.auto = NoArtifact]

Manifests ==
    { ManGood1, ManGood2, ManNoBin2, ManCorrupt1, ManMissingDir2, ManHttp2, ManBadUrl2,
      ManNoHash, ManCheckver, ManCheckverTopHash, ManCheckverNoAuto }

\* ------------------------------------------------------------------------
\* State
\* ------------------------------------------------------------------------
VARIABLES
    pc,          \* position of each process in Update / acquireLock
    result,      \* what Update (acquireLock) returned to each process
    lockFile,    \* apps/<app>/.lock
    runtime,     \* apps/<app>/runtime.json
    current,     \* apps/<app>/current
    dirs,        \* the v* directories of the app
    staging,     \* names under apps/<app>/_staging
    log,         \* events appended to the event log by the running transaction
    st,          \* Update's local RuntimeState
    effective,   \* Update's effective manifest
    artifact,    \* Update's resolved artifact
    pkg,         \* bytes of _staging/v<X>/package.zip
    extracted,   \* what lies at sourceDir after unzip
    prevTarget,  \* Update's prevTarget
    sw,          \* the switchCurrent call in progress
    opts,        \* Manager fields and collaborator behaviour of the transaction
    hist,        \* what the transaction found when it started and what it did
    txns,        \* number of transactions started
    prev,        \* version and outcome of the preceding transaction, when recorded
    clock,       \* source of modification times
    batch,       \* the batch update in progress (executeUpdate)
    run,         \* the run command in progress (executeRun) and its process
    unz,         \* the unzip call in progress
    term,        \* the terminateProcesses call in progress and the processes it sees
    disco        \* the discovery (or template rendering) in progress and its inputs

vars == <<pc, result, lockFile, runtime, current, dirs, staging, log, st,
          effective, artifact, pkg, extracted, prevTarget, sw, opts, hist,
          txns, prev,
                   clock, batch, run, unz, term, disco>>

lockVars == <<pc, result, lockFile>>

\* the files and the transaction of one app
txnVarsOfApp == <<runtime, current, dirs, staging, log, st, effective, artifact,
                  pkg, extracted, prevTarget, sw, opts, hist, txns, prev, clock>>

txnVars == <<runtime, current, dirs, staging, log, st, effective, artifact,
             pkg, extracted, prevTarget, sw, opts, hist, txns, prev,
                   clock, batch, run, unz, term, disco>>

\* ------------------------------------------------------------------------
\* Lock file
\* ------------------------------------------------------------------------
\* kind: "absent", "empty" (created, nothing written yet), "garbage" (not
\* JSON), "info" ({pid, created_at}); by: the contender whose open file it is
AbsentLock == [kind |-> "absent", pid |-> 0, by |-> 0]

LockInfo(pid, by) == [kind |-> "info", pid |-> pid, by |-> by]

ForeignLocks ==
    { [kind |-> "empty", pid |-> 0, by |-> 0],
      [kind |-> "garbage", pid |-> 0, by |-> 0],
      LockInfo(0, 0),
      LockInfo(ForeignPid, 0),
      LockInfo(DeadPid, 0) }

\* the pid under which a contender's process is known once it has exited: the
\* next process of the same contender gets the contender's pid again
ExitedPid(p) == 2000 + p

\* the lock file once the process of contender p is gone: the file is as the
\* process left it, and the pid it wrote is the pid of an exited process
LockAfterExit(p) ==
    IF lockFile.kind = "info" /\ lockFile.pid = Getpid(p)
    THEN [lockFile EXCEPT !.pid = ExitedPid(p)]
    ELSE lockFile

\* a process with this pid runs: a contender inside Update
ProcessExists(pid) ==
    \E p \in Procs : pid = Getpid(p) /\ pc[p] \notin {"idle", "done"}

\* What lockPIDRunning can answer for a pid: "running", "dead" or "error".
\* isPIDRunning answers false for a pid that is not positive, true for every
\* positive pid off Windows, and on Windows by what tasklist prints; whether a
\* foreign pid has a process is not known.
ProbeOutcomes(pid) ==
    IF pid <= 0 THEN {"dead"}
    ELSE IF ProcessExists(pid) THEN {"running", "error"}
    ELSE {"running", "dead", "error"}

\* faulty variant of lockFileIsStale: unreadable content and probe errors count as stale
lockFileIsStaleTrusting(l, probe) ==
    CASE l.kind = "absent" -> TRUE
      [] l.kind = "empty" -> TRUE
      [] l.kind = "garbage" -> TRUE
      [] OTHER -> IF l.pid <= 0 THEN TRUE ELSE probe # "running"

\* faulty variant of lockFileIsStale: a lock without a positive PID has no
\* holder and counts as stale
lockFileIsStaleNoHolder(l, probe) ==
    CASE l.kind = "absent" -> TRUE
      [] l.kind = "empty" -> FALSE
      [] l.kind = "garbage" -> FALSE
      [] OTHER -> IF l.pid <= 0 THEN TRUE ELSE probe = "dead"

\* lockFileIsStale on the content read, given the probe's answer
lockFileIsStale(l, probe) ==
    CASE l.kind = "absent" -> TRUE
      [] l.kind = "empty" -> FALSE
      [] l.kind = "garbage" -> FALSE
      [] OTHER -> IF l.pid <= 0 THEN FALSE ELSE probe = "dead"

\* releaseLock: os.Remove(lockPath)
releaseLock(l) == AbsentLock

Goto(p, label) == pc' = [pc EXCEPT ![p] = label]

Busy == "update already running"

RetryLabels == {"lock_retry", "lock_retry_clean"}

\* a return of Update before the deferred releaseLock is registered
ReturnEarly(p, res) ==
    /\ Goto(p, "done")
    /\ result' = [result EXCEPT ![p] = res]
    /\ UNCHANGED lockFile

\* a return of Update after `defer releaseLock(lockPath)`
ReturnLocked(p, res) ==
    /\ Goto(p, "done")
    /\ result' = [result EXCEPT ![p] = res]
    /\ lockFile' = releaseLock(lockFile)

\* errors of tryAcquireLock other than ErrExist, which acquireLock returns as
\* they are: os.MkdirAll and os.OpenFile
ErrCreateLockDir == "create lock dir"

ErrAcquireLock == "acquire lock"

ErrWriteLockInfo == "write lock info"

OpenErrors == {ErrCreateLockDir, ErrAcquireLock}

\* what f.Write leaves in the file when it fails: nothing or a part of the JSON
FailedWrites(p) ==
    { [kind |-> "empty", pid |-> 0, by |-> p],
      [kind |-> "garbage", pid |-> 0, by |-> p] }

\* tryAcquireLock, first call: MkdirAll, then OpenFile with O_CREATE|O_EXCL
TryAcquireLock(p) ==
    /\ pc[p] = "lock_try"
    /\ \/ /\ IF lockFile.kind = "absent"
             THEN /\ lockFile' = [kind |-> "empty", pid |-> 0, by |-> p]
                  /\ Goto(p, "lock_write")
             ELSE /\ Goto(p, "lock_check")
                  /\ UNCHANGED lockFile
          /\ UNCHANGED result
       \/ \E e \in OpenErrors : ReturnEarly(p, e)
    /\ UNCHANGED txnVars

\* tryAcquireLock: f.Write of the lock info into the file this call created;
\* when the write fails the file stays and acquireLock returns the error
WriteLockInfo(p) ==
    /\ pc[p] \in {"lock_write", "lock_rewrite"}
    /\ \/ /\ lockFile' = IF lockFile.kind = "empty" /\ lockFile.by = p
                          THEN LockInfo(Getpid(p), p)
                          ELSE lockFile
          /\ Goto(p, "locked")
          /\ UNCHANGED result
       \/ /\ \E left \in FailedWrites(p) :
                lockFile' = IF lockFile.kind = "empty" /\ lockFile.by = p
                            THEN left
                            ELSE lockFile
          /\ Goto(p, "done")
          /\ result' = [result EXCEPT ![p] = ErrWriteLockInfo]
    /\ UNCHANGED txnVars

\* acquireLock: lockFileIsStale and the decision taken on it
CheckStale(p) ==
    /\ pc[p] = "lock_check"
    /\ \E probe \in ProbeOutcomes(lockFile.pid) :
          IF lockFileIsStale(lockFile, probe)
          THEN /\ Goto(p, "lock_remove")
               /\ UNCHANGED <<result, lockFile>>
          ELSE ReturnEarly(p, Busy)
    /\ UNCHANGED txnVars

\* acquireLock: _ = os.Remove(lockPath); the retry follows at "lock_retry" when
\* a file was removed and at "lock_retry_clean" when there was none
RemoveStale(p) ==
    /\ pc[p] = "lock_remove"
    /\ lockFile' = AbsentLock
    /\ Goto(p, IF lockFile.kind = "absent" THEN "lock_retry_clean" ELSE "lock_retry")
    /\ UNCHANGED <<result, txnVars>>

\* acquireLock: the single retry of tryAcquireLock
RetryAcquireLock(p) ==
    /\ pc[p] \in RetryLabels
    /\ \/ IF lockFile.kind = "absent"
          THEN /\ lockFile' = [kind |-> "empty", pid |-> 0, by |-> p]
               /\ Goto(p, "lock_rewrite")
               /\ UNCHANGED result
          ELSE ReturnEarly(p, Busy)
       \/ \E e \in OpenErrors : ReturnEarly(p, e)
    /\ UNCHANGED txnVars

\* ------------------------------------------------------------------------
\* Runtime state, event log, current pointer, version directories
\* ------------------------------------------------------------------------
ZeroState ==
    [current_version |-> EmptyStr, last_check_at |-> 0, last_update_at |-> 0,
     last_error_code |-> "", last_error_message |-> "",
     pending_version |-> EmptyStr]

NoRuntime == [exists |-> FALSE, s |-> ZeroState]

Persisted(s) == [exists |-> TRUE, s |-> s]

\* loadState: a missing file yields the zero value
loadState(rt) == IF rt.exists THEN rt.s ELSE ZeroState

\* m.Now(): the transaction number serves as the time
Now == txns

ErrCodePkgDownload == "PKG_DOWNLOAD"

ErrCodePkgVerify == "PKG_VERIFY"

ErrCodePkgExtract == "PKG_EXTRACT"

ErrCodeScriptPreInstall == "SCRIPT_PREINSTALL"

ErrCodeSwitchPrompt == "SWITCH_PROMPT"

ErrCodeSwitchProcess == "SWITCH_PROCESS"

ErrCodeSwitchCurrent == "SWITCH_CURRENT"

ErrCodeSwitchHealthcheck == "SWITCH_HEALTHCHECK"

ErrCodeSwitchRollback == "SWITCH_ROLLBACK"

\* logEvent: appends one entry; a write failure is swallowed
\* the event log after a step: `check` is off where only the effect of the
\* step on everything but the log is asked for
LogIs(check, lgN, val) == IF check THEN lgN = val ELSE TRUE

logEventPrepended(lg, ok, event, code) ==
    IF ok THEN <<[event |-> event, error_code |-> code]>> \o lg ELSE lg

logEvent(lg, ok, event, code) ==
    IF ok THEN Append(lg, [event |-> event, error_code |-> code]) ELSE lg

AbsentCurrent == [form |-> "absent", target |-> EmptyStr]

\* strings.TrimSpace
\* unicode.IsSpace on the characters a string of the model can hold
Whitespace == {" ", "\t", "\n", "\r", "\f"}

RECURSIVE TrimLeft(_)
TrimLeft(s) ==
    IF s # << >> /\ Head(s) \in Whitespace THEN TrimLeft(Tail(s)) ELSE s

RECURSIVE TrimRight(_)
TrimRight(s) ==
    IF s # << >> /\ s[Len(s)] \in Whitespace
    THEN TrimRight(SubSeq(s, 1, Len(s) - 1)) ELSE s

TrimSpace(s) == TrimRight(TrimLeft(s))

\* paths: a path is its elements and whether it begins at the root
Dot == <<".">>

DotDot == <<".", ".">>

\* filepath.Clean on the elements of a path
RECURSIVE CleanFrom(_, _, _)
CleanFrom(abs, todo, acc) ==
    IF todo = << >> THEN acc
    ELSE LET c == Head(todo)
         IN  IF c = Dot \/ c = << >>
             THEN CleanFrom(abs, Tail(todo), acc)
             ELSE IF c = DotDot
             THEN IF acc # << >> /\ acc[Len(acc)] # DotDot
                  THEN CleanFrom(abs, Tail(todo), SubSeq(acc, 1, Len(acc) - 1))
                  ELSE IF abs THEN CleanFrom(abs, Tail(todo), acc)
                  ELSE CleanFrom(abs, Tail(todo), Append(acc, DotDot))
             ELSE CleanFrom(abs, Tail(todo), Append(acc, c))

Clean(path) == [abs |-> path.abs, elems |-> CleanFrom(path.abs, path.elems, << >>)]

Separator == <<"/">>

RECURSIVE JoinElems(_)
JoinElems(elems) ==
    IF Len(elems) = 1 THEN elems[1]
    ELSE elems[1] \o Separator \o JoinElems(Tail(elems))

\* the path as the string the code compares
PathString(path) ==
    IF path.elems = << >> THEN (IF path.abs THEN Separator ELSE Dot)
    ELSE (IF path.abs THEN Separator ELSE << >>) \o JoinElems(path.elems)

\* the elements of a path string between its separators
RECURSIVE SplitFrom(_, _)
SplitFrom(s, element) ==
    IF s = << >> THEN <<element>>
    ELSE IF <<Head(s)>> = Separator THEN <<element>> \o SplitFrom(Tail(s), << >>)
    ELSE SplitFrom(Tail(s), Append(element, Head(s)))

Elements(s) == SplitFrom(s, << >>)

\* filepath.IsAbs
IsAbs(s) == HasPrefix(s, Separator)

\* the working directory of the process
WorkDir == <<<<"w">>>>

\* the absolute path a path string names: a relative one is taken from the
\* working directory, and ".", ".." and empty elements are resolved
FullPath(s) ==
    PathString(Clean([abs |-> TRUE,
                      elems |-> (IF IsAbs(s) THEN << >> ELSE WorkDir) \o Elements(s)]))

\* the blanks and periods at the end of a path element removed
RECURSIVE TrimTrailing(_)
TrimTrailing(s) ==
    IF s # << >> /\ s[Len(s)] \in {" ", "."}
    THEN TrimTrailing(SubSeq(s, 1, Len(s) - 1)) ELSE s

\* createJunction(linkPath, targetPath) read by os.Readlink(linkPath): `mklink
\* /J` stores the absolute path of the target in the junction, and Readlink
\* returns what is stored. Whether the elements are stored as given or in the
\* form Windows gives to file names is left open: in that form an element
\* other than "." and ".." loses the single period that ends it, and the last
\* element loses every blank and period that ends it
createJunction(targetPath) ==
    LET es == Elements(targetPath)
        TrimPeriod(e) ==
            IF Len(e) >= 2 /\ e[Len(e)] = "." /\ e[Len(e) - 1] # "."
            THEN SubSeq(e, 1, Len(e) - 1) ELSE e
        TrimElement(i) ==
            IF es[i] \in {Dot, DotDot} THEN es[i]
            ELSE IF i = Len(es) THEN TrimTrailing(es[i])
            ELSE TrimPeriod(es[i])
    IN  {FullPath(targetPath),
         FullPath(JoinElems([i \in 1..Len(es) |-> TrimElement(i)]))}

\* resolveCurrentTarget with a reader that knows links only
resolveCurrentTargetLinkOnly(cur) ==
    IF cur.form = "link" THEN cur.target ELSE EmptyStr

\* resolveCurrentTarget: link first (os.Readlink), then the marker file with its
\* contents trimmed; "" when neither exists
resolveCurrentTarget(cur) ==
    IF cur.form = "link" THEN cur.target
    ELSE IF cur.form = "marker" THEN TrimSpace(cur.target)
    ELSE EmptyStr

DirName(version) == <<"v">> \o version

\* filepath.Join(m.Root, "apps", appName), the root being absolute
AppDir == <<"/", "a">>

\* versionDir: filepath.Join(m.Root, "apps", appName, "v"+version)
VersionDir(version) == AppDir \o Separator \o DirName(version)

\* the name of the directory of the app a path names; "" for a path that names
\* none
DirAt(path) ==
    IF HasPrefix(path, AppDir \o Separator)
    THEN SubSeq(path, Len(AppDir) + 2, Len(path)) ELSE EmptyStr

RemoveDir(ds, name) == [n \in (DOMAIN ds) \ {name} |-> ds[n]]

PutDir(ds, name, d) == [n \in (DOMAIN ds) \cup {name} |-> IF n = name THEN d ELSE ds[n]]

\* os.Stat(filepath.Join(currentPath, bin)): a link leads into the version
\* directory; a directory holding the marker file or nothing has no bin
StatCurrentBin(cur, ds) ==
    \/ cur.form = "bindir"
    \/ /\ cur.form = "link"
       /\ DirAt(cur.target) \in DOMAIN ds
       /\ ds[DirAt(cur.target)].bin

\* the orders sort.Slice may leave old in: most recently modified first, entries
\* with equal modification times in either order (sort.Slice is not stable)
SortByModTime(ds, names) ==
    { s \in [1..Cardinality(names) -> names] :
        /\ \A i, j \in DOMAIN s : i # j => s[i] # s[j]
        /\ \A i, j \in DOMAIN s : i < j => ds[s[i]].mtime >= ds[s[j]].mtime }

\* faulty variant of CleanupVictims: the current version's directory is not set aside
CleanupVictimsCountCurrent(ds, currentVersion, keepVersions) ==
    LET old == {n \in DOMAIN ds : HasPrefix(n, <<"v">>)}
        keep == IF keepVersions < 0 THEN 0 ELSE keepVersions
    IN  IF Cardinality(old) <= keep THEN {<< >>}
        ELSE {SubSeq(sorted, keep + 1, Len(sorted)) : sorted \in SortByModTime(ds, old)}

\* cleanupOldVersions: the sequences of directories it may set out to remove,
\* one for each order the sort may produce
CleanupVictims(ds, currentVersion, keepVersions) ==
    LET old == {n \in DOMAIN ds : HasPrefix(n, <<"v">>) /\ n # DirName(currentVersion)}
        keep == IF keepVersions < 0 THEN 0 ELSE keepVersions
    IN  IF Cardinality(old) <= keep THEN {<< >>}
        ELSE {SubSeq(sorted, keep + 1, Len(sorted)) : sorted \in SortByModTime(ds, old)}

RECURSIVE RemoveDirs(_, _)
RemoveDirs(ds, names) ==
    IF names = << >> THEN ds ELSE RemoveDirs(RemoveDir(ds, Head(names)), Tail(names))

KeepChoices == {-1, 0, DefaultKeepVersions}

\* no batch update is running
NoBatch == [pos |-> "none"]

\* no run command is running
NoRun == [pos |-> "none"]

\* no unzip call is running
NoUnzip == [pos |-> "none"]

\* no terminateProcesses call is running
NoTerm == [pos |-> "none"]

NoDisco == [pos |-> "none"]

NoSwitch == [mode |-> "none", target |-> EmptyStr, ret |-> "nil"]

NoExtract == [root |-> FALSE, sub |-> FALSE, binAt |-> "none", sha |-> EmptyStr, mtime |-> 0]

NoHist ==
    [dirs0 |-> << >>, current0 |-> AbsentCurrent, runtime0 |-> NoRuntime,
     staging0 |-> {},
     replaced |-> FALSE, hashless |-> FALSE, gc |-> FALSE, keep |-> 0,
     requests |-> 0, verified |-> FALSE, committed |-> FALSE,
     switched |-> FALSE, rollbacks |-> 0, health |-> "none", exit |-> "none"]

NoPrev == [version |-> EmptyStr, exit |-> "none", result |-> "none"]

\* the fields of the effective manifest that Update reads after RESOLVE
EffectiveOf(man) ==
    [version |-> man.version, bin |-> man.bin, pre_install |-> man.pre_install]

NoManifest == [version |-> EmptyStr, bin |-> EmptyStr, pre_install |-> FALSE]

\* ------------------------------------------------------------------------
\* Initial states
\* ------------------------------------------------------------------------
InitTxnAt(n) ==
    /\ runtime = NoRuntime
    /\ current = AbsentCurrent
    /\ dirs = << >>
    /\ staging = {}
    /\ log = << >>
    /\ st = ZeroState
    /\ effective = NoManifest
    /\ artifact = NoArtifact
    /\ pkg = NoPkg
    /\ extracted = NoExtract
    /\ prevTarget = EmptyStr
    /\ sw = NoSwitch
    /\ opts = [logOk |-> TRUE]
    /\ hist = NoHist
    /\ txns = n
    /\ prev = NoPrev
    /\ clock = 0
    /\ batch = NoBatch
    /\ run = NoRun
    /\ unz = NoUnzip
    /\ term = NoTerm
    /\ disco = NoDisco

InitTxn == InitTxnAt(0)

\* a freshly initialised workspace: the app has no files
Init ==
    /\ pc = [p \in Procs |-> "idle"]
    /\ result = [p \in Procs |-> "none"]
    /\ lockFile = AbsentLock
    /\ InitTxn

\* version directories left by earlier installs, with their modification times
OldNames == {DirName(V1), DirName(<<"8">>), DirName(<<"9">>)}

OldTimes == {-3, -2, -1}

OldDirSets ==
    UNION {[ns -> OldTimes] : ns \in SUBSET OldNames}

OldDir(name, t) ==
    [sha |-> IF name = DirName(V1) THEN PkgGood.sha ELSE <<"o">>, bin |-> TRUE, mtime |-> t]

\* an app that went through earlier transactions: old version directories, and
\* version 1 either live (current and runtime.json on it) or merely left over;
\* one more transaction runs
InitInstalled(OldDirs) ==
    /\ pc = [p \in Procs |-> "idle"]
    /\ result = [p \in Procs |-> "none"]
    /\ lockFile = AbsentLock
    /\ \E ds \in OldDirs, live \in BOOLEAN :
          /\ live => DirName(V1) \in DOMAIN ds
          /\ dirs = [n \in DOMAIN ds |-> OldDir(n, ds[n])]
          /\ current = IF live THEN [form |-> "link", target |-> VersionDir(V1)]
                       ELSE AbsentCurrent
          /\ runtime = IF live THEN Persisted([ZeroState EXCEPT !.current_version = V1])
                       ELSE NoRuntime
    /\ staging = {}
    /\ log = << >>
    /\ st = ZeroState
    /\ effective = NoManifest
    /\ artifact = NoArtifact
    /\ pkg = NoPkg
    /\ extracted = NoExtract
    /\ prevTarget = EmptyStr
    /\ sw = NoSwitch
    /\ opts = [logOk |-> TRUE]
    /\ hist = NoHist
    /\ txns = MaxTxns - 1
    /\ prev = NoPrev
    /\ clock = 0
    /\ batch = NoBatch
    /\ run = NoRun
    /\ unz = NoUnzip
    /\ term = NoTerm
    /\ disco = NoDisco

InitGC == InitInstalled(OldDirSets)

\* the same with no old version directory or that of version 1 alone
InitLive == InitInstalled({ds \in OldDirSets : DOMAIN ds \subseteq {DirName(V1)}})

\* a freshly initialised workspace on which Update is called twice
InitTwice ==
    /\ pc = [p \in Procs |-> "idle"]
    /\ result = [p \in Procs |-> "none"]
    /\ lockFile = AbsentLock
    /\ InitTxnAt(MaxTxns - 2)

\* contenders about to call acquireLock, with no lock file or a stale one
InitLock ==
    /\ pc = [p \in Procs |-> "idle"]
    /\ result = [p \in Procs |-> "none"]
    /\ lockFile \in {AbsentLock} \cup ForeignLocks
    /\ InitTxn

\* ------------------------------------------------------------------------
\* Update: RESOLVE
\* ------------------------------------------------------------------------
\* Update up to the call of acquireLock: applyCheckver, ResolveArtifact64, UPDATE_BEGIN
\* (logOk: whether the event log of the app can be written during the transaction),
\* on the manifest man with UseCheckver as given, the release endpoint answering
\* net and the capture map visited in the orders o0, o1, o2
BeginOn(p, logOk, ok, check, lgN, man, useCheckver, net, o0, o1, o2) ==
    LET disc == DiscoverLatest(man, net, o0)
        cv == IF useCheckver
              THEN applyCheckver(man, disc, o1, o2)
              ELSE [err |-> "nil", man |-> man]
        ra == ResolveArtifact64(cv.man)
        h  == [NoHist EXCEPT !.dirs0 = dirs, !.current0 = current,
                             !.runtime0 = runtime, !.staging0 = staging,
                             !.replaced = /\ useCheckver
                                          /\ disc.err = "nil"
                                          /\ disc.version \notin {EmptyStr, man.version}
                                          /\ man.auto.url # EmptyStr,
                             !.hashless = /\ man.hash = EmptyStr
                                          /\ man.auto.hash = EmptyStr]
    IN  /\ txns' = txns + 1
        /\ opts' = [logOk |-> logOk]
        /\ effective' = EffectiveOf(cv.man)
        /\ st' = ZeroState
        /\ IF cv.err # "nil"
           THEN /\ ReturnEarly(p, cv.err)
                /\ hist' = [h EXCEPT !.exit = "checkver"]
                /\ LogIs(check, lgN, << >>)
                /\ artifact' = NoArtifact
           ELSE IF ~ra.ok
           THEN /\ ReturnEarly(p, ra.err)
                /\ hist' = [h EXCEPT !.exit = "resolve"]
                /\ LogIs(check, lgN, << >>)
                /\ artifact' = NoArtifact
           ELSE /\ Goto(p, "lock_try")
                /\ hist' = h
                /\ LogIs(check, lgN, logEvent(<< >>, ok, "UPDATE_BEGIN", ""))
                /\ artifact' = ra.artifact
                /\ UNCHANGED <<result, lockFile>>
        /\ UNCHANGED <<runtime, current, dirs, staging, pkg, extracted, prevTarget, sw,
                       prev, clock, batch, run, unz, term>>

\* Update is called with a manifest of Mans and UseCheckver of Uses
BeginOf(p, logOk, ok, check, lgN, Mans, Uses) ==
    /\ pc[p] = "idle"
    /\ txns < MaxTxns
    /\ \E man \in Mans, useCheckver \in Uses :
       \E net \in IF useCheckver /\ man.checkver THEN NetAnswers ELSE {NoAnswer} :
       \E o0 \in Orders(DOMAIN net.captures), o1 \in Orders(DOMAIN net.captures),
          o2 \in Orders(DOMAIN net.captures) :
          BeginOn(p, logOk, ok, check, lgN, man, useCheckver, net, o0, o1, o2)
    /\ UNCHANGED disco

BeginCore(p, logOk, ok, check, lgN) ==
    BeginOf(p, logOk, ok, check, lgN, Manifests, BOOLEAN)

BeginWith(p, logOk) == BeginCore(p, logOk, logOk, TRUE, log')

Begin(p) == BeginWith(p, TRUE)

\* saveState on a failing exit: `_ = saveState(...)`, the write may fail unnoticed
SaveIgnored(s) == \E saved \in BOOLEAN : runtime' = IF saved THEN Persisted(s) ELSE runtime

\* faulty variant of FailStage: the stage's tag is not recorded
FailStageUntagged(p, ok, check, lgN, lg, h, code, msg, event, exit) ==
    LET s2 == [st EXCEPT !.pending_version = EmptyStr, !.last_error_message = msg]
    IN  /\ st' = s2
        /\ LogIs(check, lgN, logEvent(lg, ok, event, code))
        /\ SaveIgnored(s2)
        /\ hist' = [h EXCEPT !.exit = exit]
        /\ ReturnLocked(p, msg)

\* faulty variant of FailStage: the state is written only when the event was
\* logged
FailStageUnlessLogged(p, ok, check, lgN, lg, h, code, msg, event, exit) ==
    LET s2 == [st EXCEPT !.pending_version = EmptyStr,
                         !.last_error_code = code, !.last_error_message = msg]
    IN  /\ st' = s2
        /\ LogIs(check, lgN, logEvent(lg, ok, event, code))
        /\ IF ok THEN SaveIgnored(s2) ELSE UNCHANGED runtime
        /\ hist' = [h EXCEPT !.exit = exit]
        /\ ReturnLocked(p, msg)

\* faulty variant of FailStage: pending_version is not cleared
FailStageKeepPending(p, ok, check, lgN, lg, h, code, msg, event, exit) ==
    LET s2 == [st EXCEPT !.last_error_code = code, !.last_error_message = msg]
    IN  /\ st' = s2
        /\ LogIs(check, lgN, logEvent(lg, ok, event, code))
        /\ SaveIgnored(s2)
        /\ hist' = [h EXCEPT !.exit = exit]
        /\ ReturnLocked(p, msg)

\* the common shape of a failing stage: clear pending, record the tag, log, save, return
FailStage(p, ok, check, lgN, lg, h, code, msg, event, exit) ==
    LET s2 == [st EXCEPT !.pending_version = EmptyStr,
                         !.last_error_code = code, !.last_error_message = msg]
    IN  /\ st' = s2
        /\ LogIs(check, lgN, logEvent(lg, ok, event, code))
        /\ SaveIgnored(s2)
        /\ hist' = [h EXCEPT !.exit = exit]
        /\ ReturnLocked(p, msg)

\* a return that updates neither the state nor the log
FailBare(p, msg, exit) ==
    /\ hist' = [hist EXCEPT !.exit = exit]
    /\ ReturnLocked(p, msg)

\* ------------------------------------------------------------------------
\* Update: LOAD_STATE, FAST_PATH
\* ------------------------------------------------------------------------
\* faulty variant of AlreadyCurrent: the pending version is compared
AlreadyCurrentByPending(s, version) ==
    s.pending_version = version /\ s.pending_version # EmptyStr

\* the condition of the fast path
AlreadyCurrent(s, version) ==
    s.current_version = version /\ s.current_version # EmptyStr

LoadState(p) ==
    /\ pc[p] = "locked"
    /\ \E readOk \in BOOLEAN :
          IF ~readOk
          THEN /\ FailBare(p, "read runtime state", "load_state")
               /\ UNCHANGED st
          ELSE LET s == [loadState(runtime) EXCEPT !.last_check_at = Now]
               IN  /\ st' = s
                   /\ IF AlreadyCurrent(s, effective.version)
                      THEN Goto(p, "fast_path")
                      ELSE Goto(p, "stage_prep")
                   /\ UNCHANGED <<result, lockFile, hist>>
    /\ UNCHANGED <<runtime, current, dirs, staging, log, effective, artifact, pkg,
                   extracted, prevTarget, sw, opts, txns, prev,
                   clock, batch, run, unz, term, disco>>

FastPathSave(p) ==
    /\ pc[p] = "fast_path"
    /\ LET s == [st EXCEPT !.pending_version = EmptyStr]
       IN  /\ st' = s
           /\ \E saved \in BOOLEAN :
                 IF saved
                 THEN /\ runtime' = Persisted(s)
                      /\ Goto(p, "fast_gc")
                      /\ UNCHANGED <<result, lockFile, hist>>
                 ELSE /\ FailBare(p, "write runtime state", "fast_save")
                      /\ UNCHANGED runtime
    /\ UNCHANGED <<current, dirs, staging, log, effective, artifact, pkg,
                   extracted, prevTarget, sw, opts, txns, prev,
                   clock, batch, run, unz, term, disco>>

ErrReadAppDir == "read app directory for cleanup"

ErrRemoveOldVersion == "remove old version"

\* cleanupOldVersions, the outcomes [dirs, err] it can have: os.ReadDir fails and
\* nothing is removed; or the victims are removed in order, all of them, or the
\* first n with os.RemoveAll failing at the next
cleanupOldVersions(ds, currentVersion, keepVersions) ==
    {[dirs |-> ds, err |-> ErrReadAppDir]}
    \cup { [dirs |-> RemoveDirs(ds, SubSeq(vn[1], 1, vn[2])),
            err |-> IF vn[2] < Len(vn[1]) THEN ErrRemoveOldVersion ELSE "nil"] :
              vn \in { w \in CleanupVictims(ds, currentVersion, keepVersions)
                                \X (0..Cardinality(DOMAIN ds)) : w[2] <= Len(w[1]) } }

FastPathCleanup(p) ==
    /\ pc[p] = "fast_gc"
    /\ \E keep \in KeepChoices :
       \E gc \in cleanupOldVersions(dirs, effective.version, keep) :
              /\ dirs' = gc.dirs
              /\ hist' = [hist EXCEPT !.exit = IF gc.err = "nil" THEN "fast_ok" ELSE "fast_gc",
                                       !.gc = TRUE, !.keep = keep]
              /\ ReturnLocked(p, gc.err)
    /\ UNCHANGED <<runtime, current, staging, log, st, effective, artifact, pkg,
                   extracted, prevTarget, sw, opts, txns, prev,
                   clock, batch, run, unz, term, disco>>

\* ------------------------------------------------------------------------
\* Update: STAGE_PREP .. COMMIT_VERSION_DIR
\* ------------------------------------------------------------------------
\* faulty variant of StagePrepState: the version is recorded as current at once
StagePrepStateAdvanced(s, version) ==
    [s EXCEPT !.pending_version = version, !.current_version = version]

\* the assignment to state before the saveState of STAGE_PREP
StagePrepState(s, version) == [s EXCEPT !.pending_version = version]

StagePrep(p) ==
    /\ pc[p] = "stage_prep"
    /\ \E fault \in {"none", "remove", "mkdir", "save"} :
          LET name == DirName(effective.version)
              s    == StagePrepState(st, effective.version)
          IN  CASE fault = "remove" ->
                    /\ FailBare(p, "cleanup old staging", "stage_prep")
                    /\ UNCHANGED <<staging, st, runtime>>
                [] fault = "mkdir" ->
                    /\ staging' = staging \ {name}
                    /\ FailBare(p, "create staging", "stage_prep")
                    /\ UNCHANGED <<st, runtime>>
                [] fault = "save" ->
                    /\ staging' = staging \cup {name}
                    /\ st' = s
                    /\ FailBare(p, "write runtime state", "stage_prep")
                    /\ UNCHANGED runtime
                [] OTHER ->
                    /\ staging' = staging \cup {name}
                    /\ st' = s
                    /\ runtime' = Persisted(s)
                    /\ Goto(p, "download")
                    /\ UNCHANGED <<result, lockFile, hist>>
    /\ pkg' = NoPkg
    /\ extracted' = NoExtract
    /\ UNCHANGED <<current, dirs, log, effective, artifact, prevTarget, sw, opts,
                   txns, prev,
                   clock, batch, run, unz, term, disco>>

\* ------------------------------------------------------------------------
\* net/url.Parse, as far as m.download depends on it. The strings of the
\* model hold ASCII characters only.
\* ------------------------------------------------------------------------
Digits == {"0", "1", "2", "3", "4", "5", "6", "7", "8", "9"}

HexDigits == Digits \cup {"a", "b", "c", "d", "e", "f", "A", "B", "C", "D", "E", "F"}

IsAsciiLetter(c) == IsLetterOf(UpperLetters, c) \/ IsLetterOf(LowerLetters, c)

\* the characters below 0x20 a string of the model can hold (and 0x7f: none)
ControlChars == {"\t", "\n", "\r", "\f"}

\* the printable characters of ASCII, 0x20 .. 0x7e, in the order of their codes
\* (the grave accent 0x60, which no string of the model holds, as the empty string)
AsciiPrintable ==
    <<" ", "!", "\"", "#", "$", "%", "&", "'", "(", ")", "*", "+", ",", "-", ".", "/",
      "0", "1", "2", "3", "4", "5", "6", "7", "8", "9", ":", ";", "<", "=", ">", "?",
      "@", "A", "B", "C", "D", "E", "F", "G", "H", "I", "J", "K", "L", "M", "N", "O",
      "P", "Q", "R", "S", "T", "U", "V", "W", "X", "Y", "Z", "[", "\\", "]", "^", "_",
      "", "a", "b", "c", "d", "e", "f", "g", "h", "i", "j", "k", "l", "m", "n", "o",
      "p", "q", "r", "s", "t", "u", "v", "w", "x", "y", "z", "{", "|", "}", "~">>

HexOrder == <<"0", "1", "2", "3", "4", "5", "6", "7", "8", "9", "a", "b", "c", "d", "e", "f">>

\* unhex
unhex(c) == (CHOOSE i \in 1..16 : HexOrder[i] = LowerChar(c)) - 1

\* strings.Index for one character, counted from 1; 0 when it does not occur
IndexOf(s, c) ==
    IF \E i \in 1..Len(s) : s[i] = c
    THEN CHOOSE i \in 1..Len(s) : s[i] = c /\ \A j \in 1..(i - 1) : s[j] # c
    ELSE 0

\* strings.LastIndex for one character, counted from 1; 0 when it does not occur
LastIndexOf(s, c) ==
    IF \E i \in 1..Len(s) : s[i] = c
    THEN CHOOSE i \in 1..Len(s) : s[i] = c /\ \A j \in (i + 1)..Len(s) : s[j] # c
    ELSE 0

\* strings.Cut(s, c): before and after the first c; all of s and "" without one
CutBefore(s, c) == IF IndexOf(s, c) = 0 THEN s ELSE SubSeq(s, 1, IndexOf(s, c) - 1)

CutAfter(s, c) == IF IndexOf(s, c) = 0 THEN EmptyStr ELSE SubSeq(s, IndexOf(s, c) + 1, Len(s))

\* getScheme: [scheme, rest, ok]; the scan stops at the first character that is
\* no letter and, after the first position, no digit, '+', '-' or '.'
getScheme(rawURL) ==
    LET stops == {i \in 1..Len(rawURL) :
                     /\ ~IsAsciiLetter(rawURL[i])
                     /\ ~(i > 1 /\ rawURL[i] \in Digits \cup {"+", "-", "."})}
        k == CHOOSE i \in stops : \A j \in stops : i <= j
    IN  IF stops = {} \/ rawURL[k] # ":"
        THEN [scheme |-> EmptyStr, rest |-> rawURL, ok |-> TRUE]
        ELSE IF k = 1
        THEN [scheme |-> EmptyStr, rest |-> EmptyStr, ok |-> FALSE]
        ELSE [scheme |-> SubSeq(rawURL, 1, k - 1),
              rest |-> SubSeq(rawURL, k + 1, Len(rawURL)), ok |-> TRUE]

\* the result of shouldEscape(c, encodeHost) is false: letters, digits, the
\* sub-delims, ':', '[', ']', '<', '>', '"' and the unreserved marks
HostChars ==
    {"!", "$", "&", "'", "(", ")", "*", "+", ",", ";", "=", ":", "[", "]", "<", ">", "\"",
     "-", "_", ".", "~"}

HostCharOk(c) == IsAsciiLetter(c) \/ c \in Digits \/ c \in HostChars

\* a '%' that two hexadecimal digits follow
EscapeAt(s, i) ==
    /\ s[i] = "%"
    /\ i + 2 <= Len(s)
    /\ s[i + 1] \in HexDigits
    /\ s[i + 2] \in HexDigits

\* the character an escape stands for, "" for a byte outside printable ASCII
Unescaped(s, i) ==
    LET v == 16 * unhex(s[i + 1]) + unhex(s[i + 2])
    IN  IF v >= 32 /\ v <= 126 THEN AsciiPrintable[v - 31] ELSE ""

\* unescape(s, mode) returns no error. Every mode wants two hexadecimal
\* digits after a '%'. In a host an escape of a byte below 0x80 other than
\* %25 is refused, in a zone an escape of a byte that a host would not hold
\* in the clear (other than %25 and a space), and both refuse the characters
\* for which shouldEscape answers true.
UnescapeOk(s, mode) ==
    \A i \in 1..Len(s) :
        IF s[i] = "%"
        THEN /\ EscapeAt(s, i)
             /\ mode = "host" =>
                   (unhex(s[i + 1]) >= 8 \/ SubSeq(s, i, i + 2) = <<"%", "2", "5">>)
             /\ mode = "zone" =>
                   \/ SubSeq(s, i, i + 2) = <<"%", "2", "5">>
                   \/ Unescaped(s, i) = " "
                   \/ HostCharOk(Unescaped(s, i))
        ELSE mode \in {"host", "zone"} => HostCharOk(s[i])

\* validOptionalPort: nothing, or a colon and digits
validOptionalPort(port) ==
    \/ port = EmptyStr
    \/ port[1] = ":" /\ \A i \in 2..Len(port) : port[i] \in Digits

\* the first place at which %25 begins in s; 0 when there is none
ZoneIndex(s) ==
    LET at == {i \in 1..Len(s) : i + 2 <= Len(s) /\ SubSeq(s, i, i + 2) = <<"%", "2", "5">>}
    IN  IF at = {} THEN 0 ELSE CHOOSE i \in at : \A j \in at : i <= j

\* parseHost returns no error
parseHostOk(host) ==
    IF host # EmptyStr /\ host[1] = "["
    THEN LET i == LastIndexOf(host, "]")
             zone == ZoneIndex(SubSeq(host, 1, i - 1))
         IN  /\ i # 0
             /\ validOptionalPort(SubSeq(host, i + 1, Len(host)))
             /\ IF zone # 0
                THEN /\ UnescapeOk(SubSeq(host, 1, zone - 1), "host")
                     /\ UnescapeOk(SubSeq(host, zone, i - 1), "zone")
                     /\ UnescapeOk(SubSeq(host, i, Len(host)), "host")
                ELSE UnescapeOk(host, "host")
    ELSE /\ LastIndexOf(host, ":") # 0 =>
               validOptionalPort(SubSeq(host, LastIndexOf(host, ":"), Len(host)))
         /\ UnescapeOk(host, "host")

\* validUserinfo
UserinfoChars ==
    {"-", ".", "_", ":", "~", "!", "$", "&", "'", "(", ")", "*", "+", ",", ";", "=", "%", "@"}

validUserinfo(s) ==
    \A i \in 1..Len(s) : IsAsciiLetter(s[i]) \/ s[i] \in Digits \/ s[i] \in UserinfoChars

\* parseAuthority: [ok, host]
parseAuthority(authority) ==
    LET i == LastIndexOf(authority, "@")
        host == SubSeq(authority, i + 1, Len(authority))
        userinfo == SubSeq(authority, 1, i - 1)
    IN  [ok |-> /\ parseHostOk(host)
                /\ i # 0 => validUserinfo(userinfo) /\ UnescapeOk(userinfo, "user"),
         host |-> host]

\* url.Parse returns an error
ParseFailed == [ok |-> FALSE, scheme |-> EmptyStr, host |-> EmptyStr]

\* setPath and setFragment: the path and the fragment are unescaped
setPath(scheme, host, path, frag) ==
    IF UnescapeOk(path, "path") /\ UnescapeOk(frag, "fragment")
    THEN [ok |-> TRUE, scheme |-> scheme, host |-> host]
    ELSE ParseFailed

\* an authority follows "//" and ends before the next '/'
parseAfterSlashes(scheme, afterSlashes, authority, frag) ==
    IF parseAuthority(authority).ok
    THEN setPath(scheme, parseAuthority(authority).host,
                 SubSeq(afterSlashes, Len(authority) + 1, Len(afterSlashes)), frag)
    ELSE ParseFailed

\* the rest after the scheme and the query: one that does not begin with '/'
\* is opaque under a scheme and must not have a colon in its first segment
\* without one
parseRest(scheme, rest, frag) ==
    IF ~HasPrefix(rest, <<"/">>) /\ scheme # EmptyStr
    THEN IF UnescapeOk(frag, "fragment")
         THEN [ok |-> TRUE, scheme |-> scheme, host |-> EmptyStr] ELSE ParseFailed
    ELSE IF ~HasPrefix(rest, <<"/">>) /\ IndexOf(CutBefore(rest, "/"), ":") # 0
    THEN ParseFailed
    ELSE IF /\ HasPrefix(rest, <<"/", "/">>)
            /\ scheme # EmptyStr \/ ~HasPrefix(rest, <<"/", "/", "/">>)
    THEN parseAfterSlashes(scheme, SubSeq(rest, 3, Len(rest)),
                           CutBefore(SubSeq(rest, 3, Len(rest)), "/"), frag)
    ELSE setPath(scheme, EmptyStr, rest, frag)

\* the scheme is lowered and the query cut off: a lone '?' at the end is
\* dropped, otherwise everything from the first '?' on
parseScheme(gs, frag) ==
    IF ~gs.ok THEN ParseFailed
    ELSE parseRest(ToLower(gs.scheme),
                   IF gs.rest # EmptyStr /\ gs.rest[Len(gs.rest)] = "?"
                      /\ IndexOf(gs.rest, "?") = Len(gs.rest)
                   THEN SubSeq(gs.rest, 1, Len(gs.rest) - 1)
                   ELSE CutBefore(gs.rest, "?"),
                   frag)

\* parse(u, false) and the fragment
parseUrlFragment(u, frag) ==
    IF \E i \in 1..Len(u) : u[i] \in ControlChars THEN ParseFailed
    ELSE IF u = <<"*">> THEN
        IF UnescapeOk(frag, "fragment")
        THEN [ok |-> TRUE, scheme |-> EmptyStr, host |-> EmptyStr] ELSE ParseFailed
    ELSE parseScheme(getScheme(u), frag)

\* url.Parse(rawURL): [ok, scheme, host]; the fragment is cut off first, then
\* the scheme, then the query
ParseUrl(rawURL) == parseUrlFragment(CutBefore(rawURL, "#"), CutAfter(rawURL, "#"))

\* parsed.Scheme
\* the URLs a manifest of the model gives or a template of it renders to
ModelUrls ==
    {m.arch.url : m \in Manifests}
    \cup UNION {{renderTemplate(m.auto.url, a.captures, o) : o \in Orders(DOMAIN a.captures)} :
                  m \in Manifests, a \in NetAnswers}

\* ParseUrl on each of them, computed once
ParsedUrls == [u \in ModelUrls |-> ParseUrl(u)]

\* neturl.Parse(url)
Parse(url) == IF url \in ModelUrls THEN ParsedUrls[url] ELSE ParseUrl(url)

Scheme(url) == Parse(url).scheme

\* strings.EqualFold(parsed.Scheme, "https")
IsHttps(url) == ToLower(Scheme(url)) = <<"h", "t", "t", "p", "s">>

ErrInvalidUrl == "NET_DOWNLOAD: invalid download url"

ErrInsecureScheme == "NET_DOWNLOAD: insecure download url scheme"

ErrDownloadRequest == "NET_DOWNLOAD: download request"

ErrDownloadStatus == "NET_DOWNLOAD: download http status"

\* what io.Copy leaves in package.zip when it fails: a part of the bytes
PkgPartial == [sha |-> <<"p">>, zip |-> FALSE, sub |-> FALSE, binAt |-> "none"]

\* m.download: [err, pkg, requested]; requested: m.Client.Get was called.
\* The transport sends nothing to a URL without a host.
download(url, answer) ==
    LET parsed == Parse(url)
    IN  IF ~parsed.ok
        THEN [err |-> ErrInvalidUrl, pkg |-> NoPkg, requested |-> FALSE]
        ELSE IF ~IsHttps(url)
        THEN [err |-> ErrInsecureScheme, pkg |-> NoPkg, requested |-> FALSE]
        ELSE IF parsed.host = EmptyStr
        THEN [err |-> ErrDownloadRequest, pkg |-> NoPkg, requested |-> TRUE]
        ELSE IF answer.err # "nil"
        THEN [err |-> answer.err, pkg |-> answer.pkg, requested |-> TRUE]
        ELSE [err |-> "nil", pkg |-> answer.pkg, requested |-> TRUE]

\* what the server and the disk answer to a download: the request fails, the
\* status is not 2xx, the directory or the file cannot be created, the copy
\* fails part way, or the package arrives
DownloadAnswers ==
    {[err |-> e, pkg |-> NoPkg] : e \in
        { ErrDownloadRequest, ErrDownloadStatus,
          "create download dir", "create download file" }}
    \cup {[err |-> "write download file", pkg |-> PkgPartial]}
    \cup {[err |-> "nil", pkg |-> k] : k \in Packages}

\* PKG_DOWNLOAD_BEGIN and the call of m.download
DownloadBeginWith(p, ok, check, lgN) ==
    /\ pc[p] = "download"
    /\ LogIs(check, lgN, logEvent(log, ok, "PKG_DOWNLOAD_BEGIN", ""))
    /\ Goto(p, "download_wait")
    /\ UNCHANGED <<result, lockFile, runtime, current, dirs, staging, st, effective,
                   artifact, pkg, extracted, prevTarget, sw, opts, hist, txns, prev,
                   clock, batch, run, unz, term, disco>>

DownloadBegin(p) == DownloadBeginWith(p, opts.logOk, TRUE, log')

\* m.download has returned: PKG_DOWNLOAD_FAILED and the failing exit, or
\* PKG_DOWNLOAD_DONE
DownloadWith(p, ok, check, lgN) ==
    /\ pc[p] = "download_wait"
    /\ \E answer \in DownloadAnswers :
          LET d  == download(artifact.url, answer)
          IN  IF d.err # "nil"
              THEN /\ FailStage(p, ok, check, lgN, log,
                                [hist EXCEPT !.requests = IF d.requested THEN @ + 1 ELSE @],
                                ErrCodePkgDownload, d.err, "PKG_DOWNLOAD_FAILED", "download")
                   /\ pkg' = d.pkg
              ELSE /\ pkg' = d.pkg
                   /\ LogIs(check, lgN, logEvent(log, ok, "PKG_DOWNLOAD_DONE", ""))
                   /\ hist' = [hist EXCEPT !.requests = @ + 1]
                   /\ Goto(p, "verify")
                   /\ UNCHANGED <<result, lockFile, st, runtime>>
    /\ UNCHANGED <<current, dirs, staging, effective, artifact, extracted,
                   prevTarget, sw, opts, txns, prev,
                   clock, batch, run, unz, term, disco>>

Download(p) == DownloadWith(p, opts.logOk, TRUE, log')

VerifyWith(p, ok, check, lgN) ==
    /\ pc[p] = "verify"
    /\ IF ~VerifyOk(pkg.sha, artifact.hash)
       THEN FailStage(p, ok, check, lgN, log, hist, ErrCodePkgVerify, "sha256 mismatch", "PKG_VERIFY_FAILED", "verify")
       ELSE /\ LogIs(check, lgN, logEvent(log, ok, "PKG_VERIFY_DONE", ""))
            /\ hist' = [hist EXCEPT !.verified = TRUE]
            /\ Goto(p, "extract")
            /\ UNCHANGED <<result, lockFile, st, runtime>>
    /\ UNCHANGED <<current, dirs, staging, effective, artifact, pkg, extracted,
                   prevTarget, sw, opts, txns, prev,
                   clock, batch, run, unz, term, disco>>

Verify(p) == VerifyWith(p, opts.logOk, TRUE, log')

\* unzip into _staging/v<X>/extracted
ExtractWith(p, ok, check, lgN) ==
    /\ pc[p] = "extract"
    /\ \E diskOk \in BOOLEAN :
          IF ~pkg.zip \/ ~diskOk
          THEN /\ FailStage(p, ok, check, lgN, log, hist, ErrCodePkgExtract,
                            IF pkg.zip THEN "extract file" ELSE "open zip",
                            "PKG_EXTRACT_FAILED", "extract")
               /\ UNCHANGED <<extracted, clock>>
          ELSE /\ clock' = clock + 1
               /\ extracted' = [root |-> TRUE, sub |-> pkg.sub, binAt |-> pkg.binAt,
                                sha |-> pkg.sha, mtime |-> clock + 1]
               /\ LogIs(check, lgN, logEvent(log, ok, "PKG_EXTRACT_DONE", ""))
               /\ Goto(p, "source_dir")
               /\ UNCHANGED <<result, lockFile, st, runtime, hist>>
    /\ UNCHANGED <<current, dirs, staging, effective, artifact, pkg,
                   prevTarget, sw, opts, txns, prev, batch, run, unz, term, disco>>

Extract(p) == ExtractWith(p, opts.logOk, TRUE, log')

\* os.Stat(sourceDir) for sourceDir = extractedRoot[/extract_dir]
SourceDirExists(ex, extractDir) ==
    /\ ex.root
    /\ extractDir # EmptyStr => (extractDir = DirD /\ ex.sub)

\* whether <sourceDir>/<bin> exists
SourceHasBin(ex, extractDir) ==
    IF extractDir = EmptyStr THEN ex.binAt = "root"
    ELSE extractDir = DirD /\ ex.binAt = "sub"

ResolveSourceDir(p) ==
    /\ pc[p] = "source_dir"
    /\ IF ~SourceDirExists(extracted, artifact.extract_dir)
       THEN FailBare(p, "source extract directory missing", "source_dir")
       ELSE /\ Goto(p, "preinstall")
            /\ UNCHANGED <<result, lockFile, hist>>
    /\ UNCHANGED <<runtime, current, dirs, staging, log, st, effective, artifact,
                   pkg, extracted, prevTarget, sw, opts, txns, prev,
                   clock, batch, run, unz, term, disco>>

PreInstallErrors == {"pre_install timeout", "pre_install failed"}

\* SCRIPT_PREINSTALL_BEGIN and the call of m.runPreInstall
PreInstallBeginWith(p, ok, check, lgN) ==
    /\ pc[p] = "preinstall"
    /\ LogIs(check, lgN, logEvent(log, ok, "SCRIPT_PREINSTALL_BEGIN", ""))
    /\ Goto(p, "preinstall_wait")
    /\ UNCHANGED <<result, lockFile, runtime, current, dirs, staging, st, effective,
                   artifact, pkg, extracted, prevTarget, sw, opts, hist, txns, prev,
                   clock, batch, run, unz, term, disco>>

PreInstallBegin(p) == PreInstallBeginWith(p, opts.logOk, TRUE, log')

\* m.runPreInstall has returned: SCRIPT_PREINSTALL_FAILED and the failing exit,
\* or SCRIPT_PREINSTALL_DONE
PreInstallWith(p, ok, check, lgN) ==
    /\ pc[p] = "preinstall_wait"
    /\ \E err \in IF effective.pre_install THEN PreInstallErrors \cup {"nil"} ELSE {"nil"} :
          IF err # "nil"
          THEN FailStage(p, ok, check, lgN, log, hist, ErrCodeScriptPreInstall, err,
                         "SCRIPT_PREINSTALL_FAILED", "preinstall")
          ELSE /\ LogIs(check, lgN, logEvent(log, ok, "SCRIPT_PREINSTALL_DONE", ""))
               /\ Goto(p, "commit_remove")
               /\ UNCHANGED <<result, lockFile, st, runtime, hist>>
    /\ UNCHANGED <<current, dirs, staging, effective, artifact, pkg, extracted,
                   prevTarget, sw, opts, txns, prev,
                   clock, batch, run, unz, term, disco>>

PreInstall(p) == PreInstallWith(p, opts.logOk, TRUE, log')

\* os.RemoveAll(versionDir)
CommitRemove(p) ==
    /\ pc[p] = "commit_remove"
    /\ \E ok \in BOOLEAN :
          IF ~ok
          THEN /\ FailBare(p, "cleanup version dir", "commit")
               /\ UNCHANGED dirs
          ELSE /\ dirs' = RemoveDir(dirs, DirName(effective.version))
               /\ Goto(p, "commit_rename")
               /\ UNCHANGED <<result, lockFile, hist>>
    /\ UNCHANGED <<runtime, current, staging, log, st, effective, artifact, pkg,
                   extracted, prevTarget, sw, opts, txns, prev,
                   clock, batch, run, unz, term, disco>>

\* os.Rename(sourceDir, versionDir)
CommitRename(p) ==
    /\ pc[p] = "commit_rename"
    /\ \E ok \in BOOLEAN :
          IF ~ok
          THEN /\ FailBare(p, "move extracted version", "commit")
               /\ UNCHANGED <<dirs, extracted>>
          ELSE /\ dirs' = PutDir(dirs, DirName(effective.version),
                                 [sha |-> extracted.sha,
                                  bin |-> SourceHasBin(extracted, artifact.extract_dir),
                                  mtime |-> extracted.mtime])
               /\ extracted' = IF artifact.extract_dir = EmptyStr
                               THEN NoExtract ELSE [extracted EXCEPT !.sub = FALSE]
               /\ hist' = [hist EXCEPT !.committed = TRUE]
               /\ Goto(p, "confirm")
               /\ UNCHANGED <<result, lockFile>>
    /\ UNCHANGED <<runtime, current, staging, log, st, effective, artifact, pkg,
                   prevTarget, sw, opts, txns, prev,
                   clock, batch, run, unz, term, disco>>

\* ------------------------------------------------------------------------
\* Update: RESOLVE_PREV_TARGET, CONFIRM_SWITCH, STOP_PROCESSES
\* ------------------------------------------------------------------------
\* faulty variant of DeclinedState: pending_version is kept
DeclinedStateKeepPending(s) == s

\* the assignment to state when the user declines the switch
DeclinedState(s) == [s EXCEPT !.pending_version = EmptyStr]

ConfirmOn(p, ok, check, lgN, Prompts) ==
    /\ pc[p] = "confirm"
    /\ prevTarget' = resolveCurrentTarget(current)
    /\ \E promptSwitch \in Prompts, answer \in {"approved", "declined", "error"} :
          CASE promptSwitch /\ answer = "error" ->
                /\ LET s2 == [st EXCEPT !.pending_version = EmptyStr,
                                        !.last_error_code = ErrCodeSwitchPrompt,
                                        !.last_error_message = "confirm failed"]
                   IN  /\ st' = s2
                       /\ SaveIgnored(s2)
                /\ hist' = [hist EXCEPT !.exit = "confirm"]
                /\ ReturnLocked(p, "confirm failed")
                /\ LogIs(check, lgN, log)
            [] promptSwitch /\ answer = "declined" ->
                /\ LET s2 == DeclinedState(st)
                   IN  /\ st' = s2
                       /\ LogIs(check, lgN, logEvent(log, ok, "SWITCH_USER_DECLINED", ""))
                       /\ \E saved \in BOOLEAN :
                             IF saved
                             THEN /\ runtime' = Persisted(s2)
                                  /\ hist' = [hist EXCEPT !.exit = "declined"]
                                  /\ ReturnLocked(p, "nil")
                             ELSE /\ UNCHANGED runtime
                                  /\ hist' = [hist EXCEPT !.exit = "declined_save"]
                                  /\ ReturnLocked(p, "write runtime state")
            [] OTHER ->
                /\ answer = "approved"
                /\ Goto(p, "stop_processes")
                /\ LogIs(check, lgN, log)
                /\ UNCHANGED <<result, lockFile, st, runtime, hist>>
    /\ UNCHANGED <<current, dirs, staging, effective, artifact, pkg, extracted,
                   sw, opts, txns, prev,
                   clock, batch, run, unz, term, disco>>

\* PromptSwitch is set or not
ConfirmWith(p, ok, check, lgN) == ConfirmOn(p, ok, check, lgN, BOOLEAN)

Confirm(p) == ConfirmWith(p, opts.logOk, TRUE, log')

RECURSIVE logEvents(_, _, _)
logEvents(lg, ok, events) ==
    IF events = << >> THEN lg
    ELSE logEvents(logEvent(lg, ok, Head(events),
                            IF Head(events) = "SWITCH_PROCESS_FORCE_FAILED"
                            THEN ErrCodeSwitchProcess ELSE ""),
                   ok, Tail(events))

\* ------------------------------------------------------------------------
\* terminateProcesses, call by call, beside the processes it stops
\* ------------------------------------------------------------------------
\* the processes that may run from the app's directory (PIDs of the test)
Pids == {101, 202}

\* findPIDs: the running processes in ascending order
RECURSIVE Enumerate(_)
Enumerate(S) ==
    IF S = {} THEN << >>
    ELSE LET least == CHOOSE x \in S : \A y \in S : x <= y
         IN  <<least>> \o Enumerate(S \ {least})

\* terminateProcesses is entered while the processes of alive run from the
\* app's directory
TermCall(alive) ==
    [pos |-> "find", alive |-> alive, pids |-> << >>, k |-> 1,
     closed |-> << >>, soft |-> << >>, polled |-> FALSE,
     expired |-> FALSE, remain |-> << >>, forced |-> << >>,
     forcedGone |-> {}, events |-> << >>, err |-> "none"]

\* what a call of terminateProcesses leaves alone: everything but its own
\* position and the event log
TermFrame ==
    UNCHANGED <<pc, result, lockFile, runtime, current, dirs, staging, st, effective,
                         artifact, pkg, extracted, prevTarget, sw, opts, hist, txns, prev,
                         clock, batch, run, unz, disco>>

TermReturns(t, err) == [t EXCEPT !.pos = "returned", !.err = err]

\* the logEvent calls of a step of terminateProcesses
TermLogs(ok, check, lgN, events) == LogIs(check, lgN, logEvents(log, ok, events))

\* pids, err := m.findPIDs(prefix)
TermFindWith(ok, check, lgN) ==
    /\ term.pos = "find"
    /\ \E answered \in BOOLEAN :
          IF ~answered
          THEN /\ term' = TermReturns(term, "query process list")
               /\ TermLogs(ok, check, lgN, << >>)
          ELSE IF term.alive = {}
          THEN /\ term' = TermReturns([term EXCEPT
                                          !.events = Append(@, "SWITCH_PROCESS_NONE")],
                                      "nil")
               /\ TermLogs(ok, check, lgN, <<"SWITCH_PROCESS_NONE">>)
          ELSE /\ term' = [term EXCEPT !.pids = Enumerate(term.alive), !.pos = "close",
                                       !.k = 1,
                                       !.events = Append(@, "SWITCH_PROCESS_FOUND")]
               /\ TermLogs(ok, check, lgN, <<"SWITCH_PROCESS_FOUND">>)
    /\ TermFrame

TermFind == TermFindWith(opts.logOk, TRUE, log')

\* m.closePID(pid) for the next matched PID
TermCloseWith(ok, check, lgN) ==
    /\ term.pos = "close"
    /\ \E closed \in BOOLEAN :
          LET t1 == [term EXCEPT !.closed = Append(@, term.pids[term.k]),
                                 !.events = IF closed
                                            THEN Append(@, "SWITCH_PROCESS_GRACEFUL")
                                            ELSE @]
          IN  /\ term' = IF term.k = Len(term.pids)
                         THEN [t1 EXCEPT !.pos = "soft", !.k = 1]
                         ELSE [t1 EXCEPT !.k = @ + 1]
              /\ TermLogs(ok, check, lgN,
                          IF closed THEN <<"SWITCH_PROCESS_GRACEFUL">> ELSE << >>)
    /\ TermFrame

TermClose == TermCloseWith(opts.logOk, TRUE, log')

\* _ = m.killPID(pid, false) for the next matched PID
TermSoftKillWith(ok, check, lgN) ==
    /\ term.pos = "soft"
    /\ LET t1 == [term EXCEPT !.soft = Append(@, term.pids[term.k])]
       IN  IF term.k = Len(term.pids)
           THEN /\ term' = [t1 EXCEPT !.pos = "poll",
                                      !.events = Append(@, "SWITCH_PROCESS_SOFT_KILL")]
                /\ TermLogs(ok, check, lgN, <<"SWITCH_PROCESS_SOFT_KILL">>)
           ELSE /\ term' = [t1 EXCEPT !.k = @ + 1]
                /\ TermLogs(ok, check, lgN, << >>)
    /\ TermFrame

TermSoftKill == TermSoftKillWith(opts.logOk, TRUE, log')

\* the wait loop: time.Now().Before(deadline), findPIDs, Sleep
TermPoll ==
    /\ term.pos = "poll"
    /\ IF term.expired
       THEN term' = [term EXCEPT !.pos = "final"]
       ELSE \E answered \in BOOLEAN :
               IF ~answered THEN term' = TermReturns(term, "query remaining processes")
               ELSE IF term.alive = {} THEN term' = TermReturns(term, "nil")
               ELSE term' = [term EXCEPT !.polled = TRUE]
    /\ UNCHANGED log
    /\ TermFrame

\* remain, err := m.findPIDs(prefix) after the loop
TermFinalFind ==
    /\ term.pos = "final"
    /\ \E answered \in BOOLEAN :
          IF ~answered THEN term' = TermReturns(term, "query remaining processes")
          ELSE IF term.alive = {} THEN term' = TermReturns(term, "nil")
          ELSE term' = [term EXCEPT !.remain = Enumerate(term.alive), !.pos = "force",
                                    !.k = 1]
    /\ UNCHANGED log
    /\ TermFrame

\* the PIDs the forced kill goes through
ForceTargets(t) == t.remain

\* m.killPID(pid, true) for the next PID: taskkill /PID pid /T /F ends the
\* process and its descendants, and fails on a process that is gone
TermForceKillWith(ok, check, lgN) ==
    /\ term.pos = "force"
    /\ LET pid == ForceTargets(term)[term.k]
           t1 == [term EXCEPT !.forced = Append(@, pid),
                              !.forcedGone = @ \cup ({pid} \ term.alive)]
           failed == TermReturns([t1 EXCEPT
                                     !.events = Append(@, "SWITCH_PROCESS_FORCE_FAILED")],
                                 "taskkill failed")
       IN  IF pid \notin term.alive
           THEN /\ term' = failed
                /\ TermLogs(ok, check, lgN, <<"SWITCH_PROCESS_FORCE_FAILED">>)
           ELSE \E killed \in BOOLEAN, tree \in SUBSET (term.alive \ {pid}) :
                   IF ~killed
                   THEN /\ tree = {}
                        /\ term' = failed
                        /\ TermLogs(ok, check, lgN, <<"SWITCH_PROCESS_FORCE_FAILED">>)
                   ELSE LET t2 == [t1 EXCEPT !.alive = @ \ ({pid} \cup tree),
                                             !.events = Append(@, "SWITCH_PROCESS_FORCE_KILL")]
                        IN  /\ term' = IF term.k = Len(ForceTargets(term))
                                       THEN TermReturns(t2, "nil")
                                       ELSE [t2 EXCEPT !.k = @ + 1]
                            /\ TermLogs(ok, check, lgN, <<"SWITCH_PROCESS_FORCE_KILL">>)
    /\ TermFrame

TermForceKill == TermForceKillWith(opts.logOk, TRUE, log')

\* a process ends, by itself or because it was asked to
ProcessEnds ==
    /\ term.pos \notin {"none", "find", "returned"}
    /\ \E pid \in term.alive : term' = [term EXCEPT !.alive = @ \ {pid}]
    /\ UNCHANGED log
    /\ TermFrame

\* faulty variant of DeadlineExpires: the deadline never passes
DeadlineNever ==
    /\ term.pos = "poll"
    /\ ~term.expired
    /\ UNCHANGED <<term, log>>
    /\ TermFrame

\* the stop deadline passes
DeadlineExpires ==
    /\ term.pos = "poll"
    /\ ~term.expired
    /\ term' = [term EXCEPT !.expired = TRUE]
    /\ UNCHANGED log
    /\ TermFrame

\* ------------------------------------------------------------------------
\* Update: STOP_PROCESSES
\* ------------------------------------------------------------------------
\* SWITCH_PROCESS_BEGIN and the call of terminateProcesses, with some processes
\* of the app running
StopProcessesBeginWith(p, ok, check, lgN) ==
    /\ pc[p] = "stop_processes"
    /\ term.pos = "none"
    /\ LogIs(check, lgN, logEvent(log, ok, "SWITCH_PROCESS_BEGIN", ""))
    /\ \E alive \in SUBSET Pids : term' = TermCall(alive)
    /\ Goto(p, "stop_wait")
    /\ UNCHANGED <<result, lockFile, runtime, current, dirs, staging, st, effective,
                   artifact, pkg, extracted, prevTarget, sw, opts, hist, txns, prev,
                   clock, batch, run, unz, disco>>

StopProcessesBegin(p) == StopProcessesBeginWith(p, opts.logOk, TRUE, log')

\* faulty variant of StopProcessesWith: a failed forced kill is not fatal
StopProcessesLenient(p, ok, check, lgN) ==
    /\ pc[p] = "stop_wait"
    /\ term.pos = "returned"
    /\ IF term.err \notin {"nil", "taskkill failed"}
       THEN /\ FailStage(p, ok, check, lgN, log, hist, ErrCodeSwitchProcess, term.err,
                         "SWITCH_PROCESS_FAILED", "stop_processes")
            /\ UNCHANGED sw
       ELSE /\ LogIs(check, lgN, logEvent(log, ok, "SWITCH_PROCESS_DONE", ""))
            /\ sw' = [mode |-> "switch", target |-> VersionDir(effective.version),
                      ret |-> "nil"]
            /\ hist' = [hist EXCEPT !.switched = TRUE]
            /\ Goto(p, "sw_remove")
            /\ UNCHANGED <<result, lockFile, st, runtime>>
    /\ term' = NoTerm
    /\ UNCHANGED <<current, dirs, staging, effective, artifact, pkg, extracted,
                   prevTarget, opts, txns, prev,
                   clock, batch, run, unz, disco>>

\* terminateProcesses has returned: SWITCH_PROCESS_FAILED and the failing exit,
\* or SWITCH_PROCESS_DONE and on to switchCurrent
StopProcessesWith(p, ok, check, lgN) ==
    /\ pc[p] = "stop_wait"
    /\ term.pos = "returned"
    /\ IF term.err # "nil"
       THEN /\ FailStage(p, ok, check, lgN, log, hist, ErrCodeSwitchProcess, term.err,
                         "SWITCH_PROCESS_FAILED", "stop_processes")
            /\ UNCHANGED sw
       ELSE /\ LogIs(check, lgN, logEvent(log, ok, "SWITCH_PROCESS_DONE", ""))
            /\ sw' = [mode |-> "switch", target |-> VersionDir(effective.version),
                      ret |-> "nil"]
            /\ hist' = [hist EXCEPT !.switched = TRUE]
            /\ Goto(p, "sw_remove")
            /\ UNCHANGED <<result, lockFile, st, runtime>>
    /\ term' = NoTerm
    /\ UNCHANGED <<current, dirs, staging, effective, artifact, pkg, extracted,
                   prevTarget, opts, txns, prev,
                   clock, batch, run, unz, disco>>

StopProcesses(p) == StopProcessesWith(p, opts.logOk, TRUE, log')

\* ------------------------------------------------------------------------
\* switchCurrent, step by step (used by SWITCH_CURRENT and by ROLLBACK)
\* ------------------------------------------------------------------------
SwitchReturns(p, err) ==
    /\ sw' = [sw EXCEPT !.ret = err]
    /\ Goto(p, "sw_ret")

\* os.RemoveAll(currentPath)
SwitchRemove(p) ==
    /\ pc[p] = "sw_remove"
    /\ \E ok \in BOOLEAN :
          IF ok
          THEN /\ current' = AbsentCurrent
               /\ Goto(p, "sw_create")
               /\ UNCHANGED sw
          ELSE /\ SwitchReturns(p, "remove current")
               /\ UNCHANGED current
    /\ UNCHANGED <<result, lockFile, runtime, dirs, staging, log, st, effective,
                   artifact, pkg, extracted, prevTarget, opts, hist, txns, prev,
                   clock, batch, run, unz, term, disco>>

\* junctionCreator on Windows; when it fails, and on the other platforms,
\* os.MkdirAll(currentPath)
SwitchCreate(p) ==
    /\ pc[p] = "sw_create"
    /\ \E how \in {"junction", "mkdir", "mkdir_failed"} :
          CASE how = "junction" ->
                /\ \E link \in createJunction(sw.target) :
                      current' = [form |-> "link", target |-> link]
                /\ SwitchReturns(p, "nil")
            [] how = "mkdir" ->
                /\ current' = [form |-> "emptydir", target |-> EmptyStr]
                /\ Goto(p, "sw_marker")
                /\ UNCHANGED sw
            [] OTHER ->
                /\ SwitchReturns(p, "create current dir")
                /\ UNCHANGED current
    /\ UNCHANGED <<result, lockFile, runtime, dirs, staging, log, st, effective,
                   artifact, pkg, extracted, prevTarget, opts, hist, txns, prev,
                   clock, batch, run, unz, term, disco>>

\* os.WriteFile(current/.appstract-target, versionDir)
SwitchMarker(p) ==
    /\ pc[p] = "sw_marker"
    /\ \E ok \in BOOLEAN :
          IF ok
          THEN /\ current' = [form |-> "marker", target |-> sw.target]
               /\ SwitchReturns(p, "nil")
          ELSE /\ SwitchReturns(p, "write marker")
               /\ UNCHANGED current
    /\ UNCHANGED <<result, lockFile, runtime, dirs, staging, log, st, effective,
                   artifact, pkg, extracted, prevTarget, opts, hist, txns, prev,
                   clock, batch, run, unz, term, disco>>

\* ------------------------------------------------------------------------
\* Update: SWITCH_CURRENT, HEALTHCHECK, ROLLBACK, FINALIZE
\* ------------------------------------------------------------------------
\* Update after switchCurrent(currentPath, versionDir) returned
AfterSwitchWith(p, ok, check, lgN) ==
    /\ pc[p] = "sw_ret"
    /\ sw.mode = "switch"
    /\ IF sw.ret # "nil"
       THEN FailStage(p, ok, check, lgN, log, hist, ErrCodeSwitchCurrent, sw.ret,
                      "SWITCH_CURRENT_FAILED", "switch")
       ELSE /\ LogIs(check, lgN, logEvent(log, ok, "SWITCH_CURRENT_DONE", ""))
            /\ Goto(p, "healthcheck")
            /\ UNCHANGED <<result, lockFile, st, runtime, hist>>
    /\ UNCHANGED <<current, dirs, staging, effective, artifact, pkg, extracted,
                   prevTarget, sw, opts, txns, prev,
                   clock, batch, run, unz, term, disco>>

AfterSwitch(p) == AfterSwitchWith(p, opts.logOk, TRUE, log')

\* healthcheckAndRelaunch: the error it returns
healthcheckAndRelaunch(cur, ds, bin, relaunch, launchOk) ==
    IF bin = EmptyStr THEN "manifest bin is required"
    ELSE IF ~StatCurrentBin(cur, ds) THEN "healthcheck missing bin"
    ELSE IF relaunch /\ ~launchOk THEN "relaunch failed"
    ELSE "nil"

\* healthcheckAndRelaunch and, when it fails, the call of rollbackCurrent
HealthcheckOn(p, ok, check, lgN, Relaunches) ==
    /\ pc[p] = "healthcheck"
    /\ \E relaunch \in Relaunches, launchOk \in BOOLEAN :
          LET err == healthcheckAndRelaunch(current, dirs, effective.bin, relaunch, launchOk)
          IN  IF err = "nil"
              THEN /\ LogIs(check, lgN, logEvent(log, ok, "SWITCH_HEALTHCHECK_DONE", ""))
                   /\ hist' = [hist EXCEPT !.health = "nil"]
                   /\ Goto(p, "finalize")
                   /\ UNCHANGED sw
              ELSE /\ hist' = [hist EXCEPT !.health = err, !.rollbacks = @ + 1]
                   /\ LogIs(check, lgN, log)
                   /\ IF prevTarget = EmptyStr
                      THEN /\ sw' = [mode |-> "rollback", target |-> prevTarget, ret |-> "nil"]
                           /\ Goto(p, "sw_ret")
                      ELSE /\ sw' = [mode |-> "rollback", target |-> prevTarget, ret |-> "nil"]
                           /\ Goto(p, "sw_remove")
    /\ UNCHANGED <<result, lockFile, runtime, current, dirs, staging, st, effective,
                   artifact, pkg, extracted, prevTarget, opts, txns, prev,
                   clock, batch, run, unz, term, disco>>

\* Relaunch is set or not
HealthcheckWith(p, ok, check, lgN) == HealthcheckOn(p, ok, check, lgN, BOOLEAN)

Healthcheck(p) == HealthcheckWith(p, opts.logOk, TRUE, log')

\* faulty variant of HealthcheckFailedState: the tag of the switch stage is recorded
HealthcheckFailedStateAsSwitch(s, msg) ==
    [s EXCEPT !.pending_version = EmptyStr,
              !.last_error_code = ErrCodeSwitchCurrent,
              !.last_error_message = msg]

\* the assignments to state after a failed health check
HealthcheckFailedState(s, msg) ==
    [s EXCEPT !.pending_version = EmptyStr,
              !.last_error_code = ErrCodeSwitchHealthcheck,
              !.last_error_message = msg]

\* faulty variant of CompositeError: the health check's message is dropped
CompositeErrorRollbackOnly(err, rollbackErr) == "rollback failed: " \o rollbackErr

\* fmt.Errorf("healthcheck failed: %v; rollback failed: %v", err, rollbackErr)
CompositeError(err, rollbackErr) ==
    "healthcheck failed: " \o err \o "; rollback failed: " \o rollbackErr

\* Update after rollbackCurrent returned
AfterRollbackWith(p, ok, check, lgN) ==
    /\ pc[p] = "sw_ret"
    /\ sw.mode = "rollback"
    /\ LET lg1 == logEvent(log, ok, "SWITCH_HEALTHCHECK_FAILED", ErrCodeSwitchHealthcheck)
           s1  == HealthcheckFailedState(st, hist.health)
       IN  IF sw.ret # "nil"
           THEN LET s2 == [s1 EXCEPT !.last_error_code = ErrCodeSwitchRollback,
                                     !.last_error_message = sw.ret]
                IN  /\ st' = s2
                    /\ LogIs(check, lgN, logEvent(lg1, ok, "SWITCH_ROLLBACK_FAILED", ErrCodeSwitchRollback))
                    /\ SaveIgnored(s2)
                    /\ hist' = [hist EXCEPT !.exit = "rollback_failed"]
                    /\ ReturnLocked(p, CompositeError(hist.health, sw.ret))
           ELSE /\ st' = s1
                /\ SaveIgnored(s1)
                /\ LogIs(check, lgN, logEvent(lg1, ok, "SWITCH_ROLLBACK_DONE", ""))
                /\ hist' = [hist EXCEPT !.exit = "healthcheck"]
                /\ ReturnLocked(p, hist.health)
    /\ UNCHANGED <<current, dirs, staging, effective, artifact, pkg, extracted,
                   prevTarget, sw, opts, txns, prev,
                   clock, batch, run, unz, term, disco>>

AfterRollback(p) == AfterRollbackWith(p, opts.logOk, TRUE, log')

\* faulty variant of FinalState: current_version is not advanced
FinalStateStale(s, version, now) ==
    [s EXCEPT !.pending_version = EmptyStr, !.last_update_at = now,
              !.last_error_code = "", !.last_error_message = ""]

\* the assignments to state before the final saveState
FinalState(s, version, now) ==
    [s EXCEPT !.current_version = version,
              !.pending_version = EmptyStr,
              !.last_update_at = now,
              !.last_error_code = "",
              !.last_error_message = ""]

\* faulty variant of Finalize: a failed state write puts current back
FinalizeUndoing(p) ==
    /\ pc[p] = "finalize"
    /\ LET s == FinalState(st, effective.version, Now)
       IN  /\ st' = s
           /\ \E saved \in BOOLEAN :
                 IF saved
                 THEN /\ runtime' = Persisted(s)
                      /\ Goto(p, "final_gc")
                      /\ UNCHANGED <<result, lockFile, hist, current>>
                 ELSE /\ FailBare(p, "write runtime state", "final_save")
                      /\ current' = hist.current0
                      /\ UNCHANGED runtime
    /\ UNCHANGED <<dirs, staging, log, effective, artifact, pkg,
                   extracted, prevTarget, sw, opts, txns, prev,
                   clock, batch, run, unz, term, disco>>

\* FINALIZE: the assignments to state and their write
Finalize(p) ==
    /\ pc[p] = "finalize"
    /\ LET s == FinalState(st, effective.version, Now)
       IN  /\ st' = s
           /\ \E saved \in BOOLEAN :
                 IF saved
                 THEN /\ runtime' = Persisted(s)
                      /\ Goto(p, "final_gc")
                      /\ UNCHANGED <<result, lockFile, hist>>
                 ELSE /\ FailBare(p, "write runtime state", "final_save")
                      /\ UNCHANGED runtime
    /\ UNCHANGED <<current, dirs, staging, log, effective, artifact, pkg,
                   extracted, prevTarget, sw, opts, txns, prev,
                   clock, batch, run, unz, term, disco>>

FinalCleanupWith(p, ok, check, lgN) ==
    /\ pc[p] = "final_gc"
    /\ \E keep \in KeepChoices :
       \E gc \in cleanupOldVersions(dirs, effective.version, keep) :
              /\ dirs' = gc.dirs
              /\ IF gc.err # "nil"
                 THEN /\ hist' = [hist EXCEPT !.exit = "final_gc", !.gc = TRUE, !.keep = keep]
                      /\ ReturnLocked(p, gc.err)
                      /\ LogIs(check, lgN, log)
                 ELSE /\ LogIs(check, lgN, logEvent(logEvent(log, ok, "SWITCH_DONE", ""),
                                                          ok, "UPDATE_DONE", ""))
                      /\ hist' = [hist EXCEPT !.gc = TRUE, !.keep = keep]
                      /\ Goto(p, "final_staging")
                      /\ UNCHANGED <<result, lockFile>>
    /\ UNCHANGED <<runtime, current, staging, st, effective, artifact, pkg,
                   extracted, prevTarget, sw, opts, txns, prev,
                   clock, batch, run, unz, term, disco>>

FinalCleanup(p) == FinalCleanupWith(p, opts.logOk, TRUE, log')

\* return os.RemoveAll(_staging)
RemoveStaging(p) ==
    /\ pc[p] = "final_staging"
    /\ \E ok \in BOOLEAN :
          IF ok
          THEN /\ staging' = {}
               /\ hist' = [hist EXCEPT !.exit = "installed"]
               /\ ReturnLocked(p, "nil")
          ELSE /\ UNCHANGED staging
               /\ FailBare(p, "remove staging", "final_staging")
    /\ UNCHANGED <<runtime, current, dirs, log, st, effective, artifact, pkg,
                   extracted, prevTarget, sw, opts, txns, prev,
                   clock, batch, run, unz, term, disco>>

\* ------------------------------------------------------------------------
\* Callers and environment
\* ------------------------------------------------------------------------
\* the caller takes the result; the next transaction may start
FinishReset(p, pv) ==
    /\ pc[p] = "done"
    /\ prev' = pv
    /\ Goto(p, "idle")
    /\ result' = [result EXCEPT ![p] = "none"]
    /\ st' = ZeroState
    /\ effective' = NoManifest
    /\ artifact' = NoArtifact
    /\ pkg' = NoPkg
    /\ extracted' = NoExtract
    /\ prevTarget' = EmptyStr
    /\ sw' = NoSwitch
    /\ opts' = [logOk |-> TRUE]
    /\ hist' = NoHist
    /\ log' = << >>
    /\ UNCHANGED <<lockFile, runtime, current, dirs, staging, txns, clock, unz, term, disco>>

\* Update has returned and its caller has taken the result
FinishWith(p, pv) == FinishReset(p, pv) /\ UNCHANGED <<batch, run>>

Finish(p) == FinishWith(p, prev)

\* the caller remembers which version it asked for and how Update returned
FinishRecording(p) ==
    FinishWith(p, [version |-> effective.version, exit |-> hist.exit, result |-> result[p]])

\* between transactions another process takes, leaves behind or releases the lock
ForeignLockChange ==
    /\ pc[Self] = "idle"
    /\ txns < MaxTxns
    /\ \E l \in {AbsentLock, LockInfo(ForeignPid, 0), LockInfo(DeadPid, 0)} :
          /\ l # lockFile
          /\ lockFile' = l
    /\ UNCHANGED <<pc, result, txnVars>>

\* a contender calls acquireLock
Start(p) ==
    /\ pc[p] = "idle"
    /\ Goto(p, "lock_try")
    /\ UNCHANGED <<result, lockFile, txnVars>>

\* a contender that acquired the lock works and calls releaseLock
CriticalSection(p) ==
    /\ pc[p] = "locked"
    /\ Goto(p, "done")
    /\ result' = [result EXCEPT ![p] = "nil"]
    /\ lockFile' = releaseLock(lockFile)
    /\ UNCHANGED txnVars

AcquireStep(p) ==
    \/ TryAcquireLock(p)
    \/ WriteLockInfo(p)
    \/ CheckStale(p)
    \/ RemoveStale(p)
    \/ RetryAcquireLock(p)

\* the calls terminateProcesses makes outside its wait loop
TermCalls ==
    \/ TermFind
    \/ TermClose
    \/ TermSoftKill
    \/ TermFinalFind
    \/ TermForceKill

\* the steps of Update after RESOLVE, other than those of terminateProcesses
TxnCalls ==
    \/ AcquireStep(Self)
    \/ LoadState(Self)
    \/ FastPathSave(Self)
    \/ FastPathCleanup(Self)
    \/ StagePrep(Self)
    \/ DownloadBegin(Self)
    \/ Download(Self)
    \/ Verify(Self)
    \/ Extract(Self)
    \/ ResolveSourceDir(Self)
    \/ PreInstallBegin(Self)
    \/ PreInstall(Self)
    \/ CommitRemove(Self)
    \/ CommitRename(Self)
    \/ Confirm(Self)
    \/ StopProcessesBegin(Self)
    \/ StopProcesses(Self)
    \/ SwitchRemove(Self)
    \/ SwitchCreate(Self)
    \/ SwitchMarker(Self)
    \/ AfterSwitch(Self)
    \/ Healthcheck(Self)
    \/ AfterRollback(Self)
    \/ Finalize(Self)
    \/ FinalCleanup(Self)
    \/ RemoveStaging(Self)

\* the steps of Update after RESOLVE, with the processes terminateProcesses
\* waits for and the clock of its deadline
TxnTail ==
    \/ TxnCalls
    \/ TermCalls
    \/ TermPoll
    \/ ProcessEnds
    \/ DeadlineExpires

TxnStep ==
    \/ Begin(Self)
    \/ TxnTail

\* a step of Update as a command calls it: on a manifest of Mans, with
\* UseCheckver of Uses, PromptSwitch of Prompts and Relaunch of Relaunches
TxnStepOf(Mans, Uses, Prompts, Relaunches) ==
    \/ BeginOf(Self, TRUE, TRUE, TRUE, log', Mans, Uses)
    \/ ConfirmOn(Self, opts.logOk, TRUE, log', Prompts)
    \/ HealthcheckOn(Self, opts.logOk, TRUE, log', Relaunches)
    \/ pc[Self] \notin {"confirm", "healthcheck"} /\ TxnTail

Next ==
    \/ TxnStep
    \/ Finish(Self)
    \/ ForeignLockChange

NextTwice ==
    \/ TxnStep
    \/ FinishRecording(Self)
    \/ ForeignLockChange

Spec == Init /\ [][Next]_vars

NextLock ==
    \E p \in Procs :
        \/ Start(p)
        \/ AcquireStep(p)
        \/ CriticalSection(p)

SpecLock == InitLock /\ [][NextLock]_vars

SpecGC == InitGC /\ [][Next]_vars

SpecTwice == InitTwice /\ [][NextTwice]_vars

\* Update started by `run` in a goroutine: executeRun returns at once and main
\* calls os.Exit, which ends the process wherever Update is; deferred calls do
\* not run
ProcessExit(p) ==
    /\ pc[p] \notin {"idle", "done"}
    /\ Goto(p, "done")
    /\ result' = [result EXCEPT ![p] = "exited"]
    /\ lockFile' = LockAfterExit(p)
    /\ term' = NoTerm
    /\ UNCHANGED <<txnVarsOfApp, batch, run, unz, disco>>

NextRun ==
    \/ Next
    \/ ProcessExit(Self)

\* the background update of `run` on an installed app
SpecRun == InitGC /\ [][NextRun]_vars

\* a transaction whose event log may be unwritable
BeginAny(p) == \E logOk \in BOOLEAN : BeginWith(p, logOk)

NextLog ==
    \/ BeginAny(Self)
    \/ TxnTail
    \/ Finish(Self)
    \/ ForeignLockChange

\* one transaction on an installed app, with the event log writable or not
SpecLog == InitGC /\ [][NextLog]_vars

NextCrash ==
    \/ NextTwice
    \/ ProcessExit(Self)

\* two runs on a fresh workspace, each of which may be cut short by the exit
\* of its process; the caller remembers how the first one ended
SpecCrash == InitTwice /\ [][NextCrash]_vars

\* ------------------------------------------------------------------------
\* Properties
\* ------------------------------------------------------------------------
Holders == {p \in Procs : pc[p] = "locked"}

\* C1: at most one transaction is between a successful acquireLock and its
\* releaseLock at any time, whatever the interleaving of the acquisition steps
C1_MutualExclusion == Cardinality(Holders) <= 1

\* the positions of Update at which the lock is not held by the transaction
NotHolding ==
    {"idle", "lock_try", "lock_write", "lock_check", "lock_remove", "lock_retry",
     "lock_retry_clean", "lock_rewrite", "done"}

\* C2 as stated: after a transaction terminates, with success or with any
\* failure, the lock file is absent
C2_LockAbsentAfterReturn == pc[Self] = "done" => lockFile.kind = "absent"

\* C2 for the transaction's own lock file: after a transaction terminates no
\* lock file is on disk other than one that was there before it started
C2_NoLockLeftBehind ==
    pc[Self] = "done" => lockFile \in {AbsentLock} \cup ForeignLocks

\* a return of a transaction that had acquired the lock leaves the lock file
\* absent
HolderReleasesLock ==
    [][(pc[Self] \notin NotHolding /\ pc'[Self] = "done")
            => lockFile'.kind = "absent"]_vars

C2_Witness ==
    /\ pc[Self] = "done"
    /\ hist.exit = "verify"
    /\ result[Self] = "sha256 mismatch"
    /\ lockFile.kind = "absent"

SuccessExit == pc[Self] = "done" /\ result[Self] = "nil"

\* C3 as stated: whenever Update returns nil the persisted state has
\* current_version equal to the effective version and pending_version empty
C3_SuccessMeansInstalled ==
    SuccessExit =>
        /\ runtime.exists
        /\ runtime.s.current_version = effective.version
        /\ runtime.s.pending_version = EmptyStr

\* C3: a nil return by the full install path or the fast path leaves
\* current_version equal to the effective version and pending_version empty; a
\* nil return after the user declined leaves pending_version empty and
\* current_version as it was, different from the effective version
C3_SuccessState ==
    SuccessExit =>
        /\ runtime.exists
        /\ runtime.s.pending_version = EmptyStr
        /\ IF hist.exit = "declined"
           THEN /\ runtime.s.current_version = loadState(hist.runtime0).current_version
                /\ runtime.s.current_version # effective.version
           ELSE /\ hist.exit \in {"installed", "fast_ok"}
                /\ runtime.s.current_version = effective.version

C3_Witness ==
    /\ SuccessExit
    /\ hist.exit = "declined"
    /\ runtime.s.current_version = V1
    /\ effective.version = V2

Taxonomy ==
    {"MANIFEST_INCOMPLETE", "ALREADY_RUNNING", "NET_CHECKVER_REQUEST", "NET_CHECKVER_HTTP",
     "NET_DOWNLOAD", ErrCodePkgDownload, ErrCodePkgVerify, ErrCodePkgExtract,
     ErrCodeScriptPreInstall, ErrCodeSwitchPrompt, ErrCodeSwitchProcess,
     ErrCodeSwitchCurrent, ErrCodeSwitchHealthcheck, ErrCodeSwitchRollback}

\* C4: whenever Update returns an error the persisted state has last_error_code
\* in the taxonomy and pending_version empty; stated for the exits the claim
\* names: source-directory resolution, version-directory commit, the final
\* state write and garbage collection
C4_FailureRecorded ==
    (/\ pc[Self] = "done"
     /\ result[Self] # "nil"
     /\ hist.exit \in {"source_dir", "commit", "final_save", "final_gc"})
    =>  /\ runtime.exists
        /\ runtime.s.last_error_code \in Taxonomy
        /\ runtime.s.pending_version = EmptyStr

\* C5: a version directory is removed or created by COMMIT_VERSION_DIR only when
\* the digest of the package downloaded in this transaction equals the expected
\* digest, and the directory created holds that package; no other step but
\* garbage collection changes the version directories; a transaction that fails
\* verification returns with the version directories as it found them
C5_CommitOnlyVerified ==
    [][ /\ (dirs' # dirs /\ pc[Self] \notin {"fast_gc", "final_gc"})
            => /\ pc[Self] \in {"commit_remove", "commit_rename"}
               /\ hist.verified
               /\ pkg.sha # EmptyStr
               /\ pkg.sha = ToLower(TrimPrefix(ToLower(artifact.hash), Sha256Prefix))
               /\ \A n \in DOMAIN dirs' :
                     (n \notin DOMAIN dirs \/ dirs'[n] # dirs[n])
                         => (n = DirName(effective.version) /\ dirs'[n].sha = pkg.sha)
        /\ (pc'[Self] = "done" /\ hist'.exit = "verify")
            => (dirs' = hist'.dirs0 /\ ~hist'.committed) ]_vars

C5_Witness ==
    /\ pc[Self] = "confirm"
    /\ hist.committed
    /\ artifact.hash = Sha256Prefix \o <<"D", "4">>
    /\ DirName(V2) \in DOMAIN dirs
    /\ dirs[DirName(V2)].sha = <<"d", "4">>

HealthFailed == pc[Self] = "done" /\ hist.health \notin {"none", "nil"}

\* C6 as stated: after a failed health check or relaunch, when Update returns,
\* current resolves to the target it had before the switch, current_version is
\* unchanged and last_error_code is SWITCH_HEALTHCHECK
C6_HealthFailureRestores ==
    HealthFailed =>
        /\ resolveCurrentTarget(current) = resolveCurrentTarget(hist.current0)
        /\ runtime.s.current_version = loadState(hist.runtime0).current_version
        /\ runtime.s.last_error_code = ErrCodeSwitchHealthcheck

\* C6: after a failed health check or relaunch, when a previous target of
\* current was recorded and the rollback switch succeeds, current resolves to
\* that previous target, current_version is unchanged and the state Update
\* writes has last_error_code SWITCH_HEALTHCHECK (the persisted code is that
\* one unless the unchecked write failed); when the rollback switch fails the
\* code is SWITCH_ROLLBACK; current_version is unchanged in every case
C6_RollbackRestores ==
    HealthFailed =>
        /\ runtime.s.current_version = loadState(hist.runtime0).current_version
        /\ st.current_version = loadState(hist.runtime0).current_version
        /\ hist.exit \in {"healthcheck", "rollback_failed"}
        /\ hist.exit = "rollback_failed"
            => (prevTarget # EmptyStr /\ st.last_error_code = ErrCodeSwitchRollback)
        /\ hist.exit = "healthcheck"
            => /\ st.last_error_code = ErrCodeSwitchHealthcheck
               /\ runtime.s.last_error_code \in
                     {ErrCodeSwitchHealthcheck, loadState(hist.runtime0).last_error_code}
               /\ prevTarget # EmptyStr
                    => /\ prevTarget = resolveCurrentTarget(hist.current0)
                       /\ resolveCurrentTarget(current) = prevTarget

C6_Witness ==
    /\ HealthFailed
    /\ hist.exit = "healthcheck"
    /\ prevTarget = VersionDir(V1)
    /\ effective.version = V2
    /\ resolveCurrentTarget(current) = VersionDir(V1)
    /\ runtime.s.last_error_code = ErrCodeSwitchHealthcheck

PreSwitchExits ==
    {"download", "verify", "extract", "source_dir", "preinstall", "commit", "confirm",
     "stop_processes"}

\* C7: a transaction that fails at a stage before SWITCH_CURRENT leaves current
\* untouched, resolving to the same, still existing, version directory, and
\* invokes no rollback
C7_PreSwitchFailureKeepsCurrent ==
    (/\ pc[Self] = "done"
     /\ result[Self] # "nil"
     /\ hist.exit \in PreSwitchExits)
    =>  /\ current = hist.current0
        /\ hist.rollbacks = 0
        /\ DirAt(resolveCurrentTarget(hist.current0)) \in DOMAIN hist.dirs0
            => DirAt(resolveCurrentTarget(current)) \in DOMAIN dirs

Switching ==
    /\ pc[Self] \in {"sw_remove", "sw_create", "sw_marker", "sw_ret"}
    /\ sw.mode = "switch"

\* C8: in every intermediate state of the switch current resolves to the old
\* target or to the new one, and when switchCurrent returns an error current
\* still resolves to the old target
C8_SwitchAtomic ==
    /\ Switching
        => resolveCurrentTarget(current) \in
              {resolveCurrentTarget(hist.current0), VersionDir(effective.version)}
    /\ (pc[Self] = "done" /\ hist.exit = "switch")
        => resolveCurrentTarget(current) = resolveCurrentTarget(hist.current0)

FailedEventNames ==
    {"PKG_DOWNLOAD_FAILED", "PKG_VERIFY_FAILED", "PKG_EXTRACT_FAILED",
     "SCRIPT_PREINSTALL_FAILED", "SWITCH_PROCESS_FAILED", "SWITCH_PROCESS_FORCE_FAILED",
     "SWITCH_CURRENT_FAILED", "SWITCH_HEALTHCHECK_FAILED", "SWITCH_ROLLBACK_FAILED"}

HasEvent(name) == \E i \in DOMAIN log : log[i].event = name

FailedEntries == {i \in DOMAIN log : log[i].event \in FailedEventNames}

\* C9: the event log of a transaction that got past the lock contains
\* UPDATE_BEGIN, contains UPDATE_DONE if and only if the transaction returned
\* nil, and on failure contains exactly one *_FAILED event, whose error_code is
\* the persisted last_error_code
C9_EventLog ==
    (pc[Self] = "done" /\ hist.exit \notin {"none", "checkver", "resolve"})
    =>  /\ HasEvent("UPDATE_BEGIN")
        /\ HasEvent("UPDATE_DONE") <=> result[Self] = "nil"
        /\ result[Self] # "nil"
            => /\ Cardinality(FailedEntries) = 1
               /\ \A i \in FailedEntries :
                     log[i].error_code = runtime.s.last_error_code

\* C10: when discovery replaced the version with a newer one and the manifest
\* offers no hash for it, Update returns the 'no verifiable hash' error at once:
\* no download request, lock file, staging directory, runtime state, version
\* directory and current untouched, nothing logged
C10_UnverifiableDiscoveryFailsEarly ==
    [][ (pc[Self] = "idle" /\ hist'.replaced /\ hist'.hashless)
            => /\ pc'[Self] = "done"
               /\ result'[Self] = ErrNoVerifiableHash
               /\ hist'.requests = 0
               /\ log' = << >>
               /\ UNCHANGED <<lockFile, staging, runtime, dirs, current>> ]_vars

C10_Witness ==
    /\ pc[Self] = "done"
    /\ result[Self] = ErrNoVerifiableHash
    /\ hist.replaced
    /\ hist.hashless
    /\ effective.version = V2
    /\ hist.requests = 0
    /\ lockFile.kind = "absent"

\* the retention a transaction ran with: the value cleanupOldVersions read, or,
\* when it was never called, any value the manager may be configured with
Retentions == IF hist.gc THEN {hist.keep} ELSE KeepChoices

Retained(k) == IF k < 0 THEN 0 ELSE k

\* C11 as stated: after every successful transaction with retention K the app
\* directory holds at most K+1 version directories
C11_AtMostKPlusOne ==
    SuccessExit => \A k \in Retentions : Cardinality(DOMAIN dirs) <= Retained(k) + 1

\* C11: after a successful full install or fast-path transaction with retention
\* K (negative counts as 0) the version directories are those present before
\* garbage collection minus the removed ones: at most K+1 remain, the current
\* version's directory among them, and no removed directory was modified more
\* recently than one of the K non-current ones kept
C11_RetentionAfterGC ==
    (SuccessExit /\ hist.exit \in {"installed", "fast_ok"})
    =>  LET k       == Retained(hist.keep)
            cur     == DirName(effective.version)
            before  == IF hist.exit = "installed"
                       THEN DOMAIN hist.dirs0 \cup {cur} ELSE DOMAIN hist.dirs0
            kept    == DOMAIN dirs
            others  == before \ {cur}
            removed == before \ kept
        IN  /\ hist.gc
            /\ kept \subseteq before
            /\ Cardinality(kept) <= k + 1
            /\ cur \in before => cur \in kept
            /\ removed \subseteq others
            /\ Cardinality(kept \ {cur}) =
                  IF Cardinality(others) <= k THEN Cardinality(others) ELSE k
            /\ \A r \in kept \ {cur}, x \in removed :
                  hist.dirs0[r].mtime >= hist.dirs0[x].mtime

C11_Witness ==
    /\ SuccessExit
    /\ hist.exit = "installed"
    /\ hist.keep = DefaultKeepVersions
    /\ Cardinality(DOMAIN hist.dirs0) = 3
    /\ effective.version = V2
    /\ DOMAIN dirs = {DirName(V2), DirName(V1), DirName(<<"9">>)}

\* the running transaction asks for the version the preceding one asked for
SameVersionAgain == prev.version # EmptyStr /\ effective.version = prev.version

FastPathLabels ==
    {"lock_try", "lock_write", "lock_check", "lock_remove", "lock_retry",
     "lock_retry_clean", "lock_rewrite", "locked", "fast_path", "fast_gc", "done"}

\* what a second run must not do or change
NothingBeyondGC ==
    /\ pc[Self] \in FastPathLabels
    /\ hist.requests = 0
    /\ ~hist.verified /\ ~hist.committed /\ ~hist.switched /\ hist.rollbacks = 0
    /\ \A i \in DOMAIN log : log[i].event = "UPDATE_BEGIN"
    /\ current = hist.current0
    /\ DirName(prev.version) \in DOMAIN hist.dirs0
    /\ DirName(prev.version) \in DOMAIN dirs
    /\ dirs[DirName(prev.version)] = hist.dirs0[DirName(prev.version)]
    /\ runtime.exists
    /\ runtime.s.current_version = loadState(hist.runtime0).current_version

\* C12 as stated: a second Update for the same version after a run that
\* returned success does nothing beyond garbage collection and returns success
C12_SecondRunIsNoop ==
    (SameVersionAgain /\ prev.result = "nil")
    =>  /\ NothingBeyondGC
        /\ pc[Self] = "done" => result[Self] = "nil"

\* C12: a second Update for the same version after a run that succeeded by the
\* full install path or the fast path downloads, extracts, runs and switches
\* nothing and leaves current, the version directory and current_version as
\* they are; once its manifest resolved, it holds the lock and has read the
\* state it takes the fast path, and it returns success unless the state write
\* or garbage collection fails; a return without the lock carries an error of
\* acquireLock
C12_SecondRunAfterInstall ==
    (SameVersionAgain /\ prev.exit \in {"installed", "fast_ok"})
    =>  /\ prev.result = "nil"
        /\ NothingBeyondGC
        /\ runtime.s.current_version = prev.version
        /\ pc[Self] = "done"
            => /\ hist.exit \in {"checkver", "resolve", "none", "load_state", "fast_save",
                                 "fast_gc", "fast_ok"}
               /\ hist.exit = "none"
                    => result[Self] \in {Busy, ErrWriteLockInfo} \cup OpenErrors
               /\ hist.exit = "fast_ok" <=> result[Self] = "nil"

C12_Witness ==
    /\ SameVersionAgain
    /\ prev.exit = "installed"
    /\ pc[Self] = "done"
    /\ hist.exit = "fast_ok"
    /\ result[Self] = "nil"
    /\ hist.gc

CurrentVersionNow == loadState(runtime).current_version

CurrentVersionAtStart == loadState(hist.runtime0).current_version

\* C13 as stated: the persisted current_version changes only in a transaction
\* whose switch and health check succeeded, then only to its effective
\* version, and no failing, declined, rolled-back or fast-path transaction
\* changes it
C13_ChangesOnlyOnSuccess ==
    (pc[Self] # "idle" /\ CurrentVersionNow # CurrentVersionAtStart)
    =>  /\ hist.switched
        /\ hist.health = "nil"
        /\ CurrentVersionNow = effective.version
        /\ pc[Self] = "done" => result[Self] = "nil"

\* C13: the persisted current_version differs from its value at the start of
\* the transaction only after the final state write of a transaction whose
\* switch and health check succeeded, and is then the effective version; the
\* transaction returns success or fails in the garbage collection or staging
\* removal that follow that write; every other exit leaves it unchanged
C13_ChangesOnlyAtFinalize ==
    (pc[Self] # "idle" /\ CurrentVersionNow # CurrentVersionAtStart)
    =>  /\ hist.switched
        /\ hist.health = "nil"
        /\ hist.rollbacks = 0
        /\ CurrentVersionNow = effective.version
        /\ pc[Self] \in {"final_gc", "final_staging", "done"}
        /\ pc[Self] = "done" => hist.exit \in {"installed", "final_gc", "final_staging"}
        /\ (pc[Self] = "done" /\ result[Self] = "nil") => hist.exit = "installed"

C13_Witness ==
    /\ pc[Self] = "done"
    /\ hist.exit = "installed"
    /\ CurrentVersionAtStart = V1
    /\ CurrentVersionNow = V2
    /\ effective.version = V2

\* ------------------------------------------------------------------------
\* C14: recovery of a stale lock
\* ------------------------------------------------------------------------
\* the lock file carries a positive PID
PositivePidLock(l) == l.kind = "info" /\ l.pid > 0

\* the file this contender created with O_EXCL is still the lock file
OwnCreated(p, l) == l.kind = "empty" /\ l.by = p

\* C14 as stated: the single retry that follows the removal of a stale lock
\* succeeds
C14_RetrySucceeds ==
    [][\A p \in Procs :
          (pc[p] \in RetryLabels /\ pc'[p] \notin RetryLabels) => pc'[p] = "lock_rewrite"]_vars

\* C14: a lock with a positive PID is judged stale exactly when the liveness
\* probe reports the PID not running; acquireLock then removes the file and
\* retries the exclusive create once; the retry succeeds when the path is still
\* free and fails with 'update already running', leaving the file alone, when
\* another contender created it first; a successful retry writes the
\* acquirer's own PID into the file it created; a retry whose create or write
\* fails for another reason returns that error and removes nothing
C14_StaleLockRecovered ==
    [][\A p \in Procs :
          /\ (pc[p] = "lock_check" /\ PositivePidLock(lockFile) /\ pc'[p] # "lock_check")
                => /\ lockFile' = lockFile
                   /\ \/ pc'[p] = "lock_remove" /\ "dead" \in ProbeOutcomes(lockFile.pid)
                      \/ pc'[p] = "done" /\ result'[p] = Busy
                              /\ ProbeOutcomes(lockFile.pid) \cap {"running", "error"} # {}
          /\ (pc[p] = "lock_remove" /\ pc'[p] # "lock_remove")
                => pc'[p] \in RetryLabels /\ lockFile'.kind = "absent"
          /\ (pc[p] \in RetryLabels /\ pc'[p] \notin RetryLabels)
                => \/ pc'[p] = "done" /\ result'[p] \in OpenErrors /\ lockFile' = lockFile
                   \/ IF lockFile.kind = "absent"
                      THEN pc'[p] = "lock_rewrite" /\ OwnCreated(p, lockFile')
                      ELSE pc'[p] = "done" /\ result'[p] = Busy /\ lockFile' = lockFile
          /\ (pc[p] = "lock_rewrite" /\ pc'[p] # "lock_rewrite")
                => \/ /\ pc'[p] = "locked"
                      /\ OwnCreated(p, lockFile) => lockFile' = LockInfo(Getpid(p), p)
                   \/ /\ pc'[p] = "done" /\ result'[p] = ErrWriteLockInfo
                      /\ lockFile' \in IF OwnCreated(p, lockFile)
                                       THEN FailedWrites(p)
                                       ELSE {lockFile}]_vars

\* a contender has removed the lock of the dead PID and its retry has created
\* the file anew, while the others have not started
C14_Witness ==
    \E p \in Procs :
        /\ pc[p] = "lock_rewrite"
        /\ OwnCreated(p, lockFile)
        /\ \A q \in Procs \ {p} : pc[q] = "idle"

\* ------------------------------------------------------------------------
\* C15: what counts as an active lock
\* ------------------------------------------------------------------------
\* lock contents that the probe cannot report as left by a dead process:
\* empty, not JSON, a PID that is not positive, or a PID for which the probe
\* answers 'running' or fails
ActiveLock(l) ==
    \/ l.kind \in {"empty", "garbage"}
    \/ l.kind = "info" /\ l.pid <= 0
    \/ PositivePidLock(l) /\ ProbeOutcomes(l.pid) \subseteq {"running", "error"}

\* C15: when the existing lock file is empty, is not valid JSON, records a
\* PID that is not positive, or records a PID the probe reports running or
\* cannot probe, acquireLock fails with 'update already running' and leaves the
\* lock file as it is
C15_ActiveLockRejected ==
    [][\A p \in Procs :
          /\ (pc[p] = "lock_check" /\ ActiveLock(lockFile) /\ pc'[p] # "lock_check")
                => pc'[p] = "done" /\ result'[p] = Busy /\ lockFile' = lockFile
          /\ (pc[p] = "lock_check" /\ PositivePidLock(lockFile)
                  /\ pc'[p] = "lock_remove")
                => "dead" \in ProbeOutcomes(lockFile.pid)
          /\ \A l \in ForeignLocks : \A probe \in {"running", "error"} :
                ~lockFileIsStale(l, probe)]_vars

\* a contender was turned away by a lock file that is not valid JSON, and the
\* file is still there
C15_Witness ==
    \E p \in Procs :
        /\ pc[p] = "done" /\ result[p] = Busy
        /\ lockFile.kind = "garbage"

\* ------------------------------------------------------------------------
\* C16: release of the lock on every exit path
\* ------------------------------------------------------------------------
\* the lock file on disk is the one this transaction created
OwnLockOnDisk(p) == lockFile.kind \in {"empty", "garbage", "info"} /\ lockFile.by = p

\* C16: no lock file of a transaction that is no longer running remains on
\* disk, whether the transaction returned or its process exited
C16_NoLockOfFinishedTransaction == pc[Self] = "done" => ~OwnLockOnDisk(Self)

\* ------------------------------------------------------------------------
\* C17: a transaction that does not get the lock writes nothing
\* ------------------------------------------------------------------------
\* runtime.json, current, the version directories and _staging
AppFiles == <<runtime, current, dirs, staging>>

\* the positions of acquireLock
AcquireLabels ==
    {"lock_try", "lock_write", "lock_check", "lock_remove", "lock_rewrite"} \cup RetryLabels

\* contender p returns 'update already running' in this step
TurnedAway(p) == pc[p] # "done" /\ pc'[p] = "done" /\ result'[p] = Busy

\* C17: a transaction that fails with 'update already running' has changed
\* neither runtime.json, current, the version directories, _staging nor the
\* lock file: no step of an acquisition changes the app's files, and a
\* contender that is turned away has not removed a lock file before
C17_LoserWritesNothing ==
    [][\A p \in Procs :
          /\ (pc[p] \in AcquireLabels /\ pc'[p] # pc[p]) => UNCHANGED AppFiles
          /\ TurnedAway(p) => (pc[p] # "lock_retry" /\ lockFile' = lockFile)]_vars

\* ------------------------------------------------------------------------
\* C18: the staging directory at the end of a transaction
\* ------------------------------------------------------------------------
\* exits of Update taken before STAGE_PREP has created _staging/v<X>
BeforeStagingExits ==
    {"none", "checkver", "resolve", "load_state", "fast_save", "fast_ok", "fast_gc",
     "stage_prep"}

\* the transaction created its staging directory
CreatedStaging == hist.exit \notin BeforeStagingExits

\* C18: when a transaction that created _staging/v<X> has terminated, by
\* success, by decline or by a failure at any stage, that directory no longer
\* exists
C18_StagingReclaimed ==
    (pc[Self] = "done" /\ CreatedStaging) => DirName(effective.version) \notin staging

\* ------------------------------------------------------------------------
\* C19: order of the stages and of the events
\* ------------------------------------------------------------------------
\* the stages of Update in the order of the function body
Stages ==
    <<"RESOLVE", "LOCK", "LOAD_STATE", "FAST_PATH", "STAGE_PREP", "DOWNLOAD", "VERIFY",
      "EXTRACT", "RESOLVE_SOURCE_DIR", "PREINSTALL", "COMMIT_VERSION_DIR",
      "RESOLVE_PREV_TARGET", "CONFIRM_SWITCH", "STOP_PROCESSES", "SWITCH_CURRENT",
      "HEALTHCHECK", "ROLLBACK", "FINALIZE">>

Rank(stage) == CHOOSE i \in DOMAIN Stages : Stages[i] = stage

\* the stage that runs next from a position of Update; the steps of
\* switchCurrent belong to SWITCH_CURRENT or to ROLLBACK according to the caller
StageAt(label, mode) ==
    CASE label = "idle" -> "RESOLVE"
      [] label \in AcquireLabels -> "LOCK"
      [] label = "locked" -> "LOAD_STATE"
      [] label \in {"fast_path", "fast_gc"} -> "FAST_PATH"
      [] label = "stage_prep" -> "STAGE_PREP"
      [] label \in {"download", "download_wait"} -> "DOWNLOAD"
      [] label = "verify" -> "VERIFY"
      [] label = "extract" -> "EXTRACT"
      [] label = "source_dir" -> "RESOLVE_SOURCE_DIR"
      [] label \in {"preinstall", "preinstall_wait"} -> "PREINSTALL"
      [] label \in {"commit_remove", "commit_rename"} -> "COMMIT_VERSION_DIR"
      [] label = "confirm" -> "RESOLVE_PREV_TARGET"
      [] label \in {"stop_processes", "stop_wait"} -> "STOP_PROCESSES"
      [] label \in {"sw_remove", "sw_create", "sw_marker", "sw_ret"} ->
            IF mode = "rollback" THEN "ROLLBACK" ELSE "SWITCH_CURRENT"
      [] label = "healthcheck" -> "HEALTHCHECK"
      [] label \in {"finalize", "final_gc", "final_staging"} -> "FINALIZE"

\* the stage that writes an event
EventStage(event) ==
    CASE event = "UPDATE_BEGIN" -> "RESOLVE"
      [] event \in {"PKG_DOWNLOAD_BEGIN", "PKG_DOWNLOAD_DONE", "PKG_DOWNLOAD_FAILED"} -> "DOWNLOAD"
      [] event \in {"PKG_VERIFY_DONE", "PKG_VERIFY_FAILED"} -> "VERIFY"
      [] event \in {"PKG_EXTRACT_DONE", "PKG_EXTRACT_FAILED"} -> "EXTRACT"
      [] event \in {"SCRIPT_PREINSTALL_BEGIN", "SCRIPT_PREINSTALL_DONE",
                    "SCRIPT_PREINSTALL_FAILED"} -> "PREINSTALL"
      [] event = "SWITCH_USER_DECLINED" -> "CONFIRM_SWITCH"
      [] event \in {"SWITCH_PROCESS_BEGIN", "SWITCH_PROCESS_NONE", "SWITCH_PROCESS_FOUND",
                    "SWITCH_PROCESS_GRACEFUL", "SWITCH_PROCESS_SOFT_KILL",
                    "SWITCH_PROCESS_FORCE_KILL", "SWITCH_PROCESS_FORCE_FAILED",
                    "SWITCH_PROCESS_FAILED", "SWITCH_PROCESS_DONE"} -> "STOP_PROCESSES"
      [] event \in {"SWITCH_CURRENT_DONE", "SWITCH_CURRENT_FAILED"} -> "SWITCH_CURRENT"
      [] event \in {"SWITCH_HEALTHCHECK_DONE", "SWITCH_HEALTHCHECK_FAILED"} -> "HEALTHCHECK"
      [] event \in {"SWITCH_ROLLBACK_DONE", "SWITCH_ROLLBACK_FAILED"} -> "ROLLBACK"
      [] event \in {"SWITCH_DONE", "UPDATE_DONE"} -> "FINALIZE"

Running(p) == pc[p] \notin {"idle", "done"}

HereRank == Rank(StageAt(pc[Self], sw.mode))

\* the events of the transaction are in the log in the order of their stages,
\* and none is of a stage that has not been reached
LogInStageOrder ==
    /\ \A i, j \in DOMAIN log :
          i < j => Rank(EventStage(log[i].event)) <= Rank(EventStage(log[j].event))
    /\ Running(Self) => \A i \in DOMAIN log : Rank(EventStage(log[i].event)) <= HereRank

\* a stage is reached only with the earlier ones passed: nothing has failed,
\* the package was verified before EXTRACT, the version directory committed
\* before RESOLVE_PREV_TARGET, current switched before HEALTHCHECK
EarlierStagesPassed ==
    Running(Self) =>
        /\ result[Self] = "none" /\ hist.exit = "none"
        /\ HereRank >= Rank("EXTRACT") => hist.verified
        /\ HereRank >= Rank("RESOLVE_PREV_TARGET") => hist.committed
        /\ HereRank >= Rank("HEALTHCHECK") => hist.switched
        /\ HereRank = Rank("ROLLBACK") <=> hist.rollbacks > 0
        /\ HereRank = Rank("FINALIZE") => hist.health = "nil"

\* a step of the transaction stays in its stage, moves to a later stage or
\* returns; ROLLBACK is entered from a failed HEALTHCHECK only and is followed
\* by a failing return
StepInStageOrder ==
    Running(Self) =>
        LET there == Rank(StageAt(pc'[Self], sw'.mode))
        IN  /\ pc'[Self] # "idle"
            /\ Running(Self)' => there >= HereRank
            /\ (Running(Self)' /\ there = Rank("ROLLBACK") /\ HereRank # there)
                  => HereRank = Rank("HEALTHCHECK") /\ hist'.health \notin {"none", "nil"}
            /\ HereRank = Rank("ROLLBACK")
                  => \/ Running(Self)' /\ there = HereRank
                     \/ pc'[Self] = "done" /\ result'[Self] \notin {"none", "nil"}

\* C19: within one transaction the stages run in the order RESOLVE, LOCK,
\* LOAD_STATE, FAST_PATH, STAGE_PREP, DOWNLOAD, VERIFY, EXTRACT,
\* RESOLVE_SOURCE_DIR, PREINSTALL, COMMIT_VERSION_DIR, RESOLVE_PREV_TARGET,
\* CONFIRM_SWITCH, STOP_PROCESSES, SWITCH_CURRENT, HEALTHCHECK, ROLLBACK (only
\* after a failed HEALTHCHECK), FINALIZE; no stage starts before the earlier
\* ones succeeded, none runs after a failed one except ROLLBACK, and the events
\* are appended to the log in stage order
C19_StagesInOrder ==
    /\ [](LogInStageOrder /\ EarlierStagesPassed)
    /\ [][StepInStageOrder]_vars

\* a transaction went through every stage up to a failed HEALTHCHECK and a
\* rollback, and its events are in the log
C19_Witness ==
    /\ pc[Self] = "done"
    /\ hist.exit = "healthcheck"
    /\ \E i, j \in DOMAIN log :
          /\ log[i].event = "SWITCH_HEALTHCHECK_FAILED"
          /\ log[j].event = "SWITCH_ROLLBACK_DONE"
          /\ i < j

\* ------------------------------------------------------------------------
\* C20: the tag persisted by a failing stage
\* ------------------------------------------------------------------------
\* the failing exits of the stages that record a tag
TaggedExits ==
    {"download", "verify", "extract", "preinstall", "confirm", "stop_processes", "switch",
     "healthcheck", "rollback_failed"}

\* the tag the claim gives to the stage of a failing exit
StageTag(exit) ==
    CASE exit = "download" -> ErrCodePkgDownload
      [] exit = "verify" -> ErrCodePkgVerify
      [] exit = "extract" -> ErrCodePkgExtract
      [] exit = "preinstall" -> ErrCodeScriptPreInstall
      [] exit = "confirm" -> ErrCodeSwitchPrompt
      [] exit = "stop_processes" -> ErrCodeSwitchProcess
      [] exit = "switch" -> ErrCodeSwitchCurrent
      [] exit \in {"healthcheck", "rollback_failed"} -> ErrCodeSwitchHealthcheck

\* the tag Update assigns: a failed rollback replaces the health check's tag
AssignedTag(exit) ==
    IF exit = "rollback_failed" THEN ErrCodeSwitchRollback ELSE StageTag(exit)

StageFailed == pc[Self] = "done" /\ hist.exit \in TaggedExits

\* runtime.json as STAGE_PREP wrote it: the loaded state with pending_version set
StagePrepRuntime ==
    Persisted([st EXCEPT !.pending_version = effective.version,
                         !.last_error_code = loadState(hist.runtime0).last_error_code,
                         !.last_error_message = loadState(hist.runtime0).last_error_message])

\* C20 as stated: after a stage failure runtime.json holds that stage's own
\* tag as last_error_code
C20_StageTagPersisted ==
    StageFailed => runtime.exists /\ runtime.s.last_error_code = StageTag(hist.exit)

\* C20: a failing stage assigns its own tag to last_error_code and clears
\* pending_version (a health-check failure whose rollback fails too assigns
\* SWITCH_ROLLBACK), and writes that state to runtime.json before Update
\* returns; when that one write fails runtime.json stays as STAGE_PREP wrote
\* it; a failure of EXTRACT comes after a passed VERIFY
C20_StageTagAssigned ==
    StageFailed =>
        /\ result[Self] \notin {"none", "nil"}
        /\ st.last_error_code = AssignedTag(hist.exit)
        /\ st.pending_version = EmptyStr
        /\ runtime \in {Persisted(st), StagePrepRuntime}
        /\ hist.exit = "extract" => hist.verified

\* the package had the expected hash but is not a valid archive: VERIFY
\* passed, Update returned the extraction error, runtime.json holds PKG_EXTRACT
C20_Witness ==
    /\ StageFailed
    /\ hist.exit = "extract"
    /\ hist.verified
    /\ runtime = Persisted(st)
    /\ runtime.s.last_error_code = ErrCodePkgExtract

\* ------------------------------------------------------------------------
\* C21: health check and rollback both fail
\* ------------------------------------------------------------------------
\* strings.Contains
Contains(s, sub) ==
    \E i \in 1..(Len(s) - Len(sub) + 1) : SubSeq(s, i, i + Len(sub) - 1) = sub

BothFailed == pc[Self] = "done" /\ hist.exit = "rollback_failed"

\* C21 as stated: when the health check and the rollback both fail, the
\* returned message contains both failures and runtime.json holds
\* last_error_code SWITCH_ROLLBACK and an empty pending_version
C21_CompositePersisted ==
    BothFailed =>
        /\ Contains(result[Self], hist.health) /\ Contains(result[Self], sw.ret)
        /\ runtime.exists
        /\ runtime.s.last_error_code = ErrCodeSwitchRollback
        /\ runtime.s.pending_version = EmptyStr

\* C21: when the health check and the rollback both fail, Update returns one
\* error whose message contains both failures, the state it writes has
\* last_error_code SWITCH_ROLLBACK, the rollback's message and an empty
\* pending_version, and runtime.json holds that state unless the one unchecked
\* write failed, in which case it stays as STAGE_PREP wrote it
C21_CompositeError ==
    BothFailed =>
        /\ hist.health \notin {"none", "nil"} /\ sw.ret # "nil"
        /\ Contains(result[Self], hist.health) /\ Contains(result[Self], sw.ret)
        /\ st.last_error_code = ErrCodeSwitchRollback
        /\ st.last_error_message = sw.ret
        /\ st.pending_version = EmptyStr
        /\ runtime \in {Persisted(st), StagePrepRuntime}

\* both failed and the state was written
C21_Witness ==
    /\ BothFailed
    /\ Contains(result[Self], hist.health) /\ Contains(result[Self], sw.ret)
    /\ runtime = Persisted(st)
    /\ runtime.s.last_error_code = ErrCodeSwitchRollback

\* ------------------------------------------------------------------------
\* C22: the user declines the switch
\* ------------------------------------------------------------------------
Declined == pc[Self] = "done" /\ hist.exit \in {"declined", "declined_save"}

\* no event of STOP_PROCESSES or of a later stage is in the log, current is
\* as the transaction found it and so is the persisted current_version
DeclineFrame ==
    /\ \A i \in DOMAIN log : Rank(EventStage(log[i].event)) < Rank("STOP_PROCESSES")
    /\ ~hist.switched /\ hist.rollbacks = 0
    /\ current = hist.current0
    /\ runtime.s.current_version = loadState(hist.runtime0).current_version

\* C22 as stated: after a decline Update returns success with pending_version
\* cleared and persisted, no process terminated, current not switched and
\* current_version unchanged
C22_DeclineReturnsSuccess ==
    Declined =>
        /\ result[Self] = "nil"
        /\ runtime.exists /\ runtime.s.pending_version = EmptyStr
        /\ DeclineFrame

\* C22: after a decline no process was terminated, current is not switched
\* and current_version is unchanged; Update clears pending_version and returns
\* the result of writing the state: success with the cleared pending_version
\* persisted, or the write's error with runtime.json as STAGE_PREP wrote it
C22_DeclineExitsCleanly ==
    Declined =>
        /\ DeclineFrame
        /\ st.pending_version = EmptyStr
        /\ IF result[Self] = "nil"
           THEN hist.exit = "declined" /\ runtime = Persisted(st)
           ELSE hist.exit = "declined_save" /\ runtime = StagePrepRuntime
                   /\ runtime.s.pending_version = effective.version

\* version 1 is installed, the upgrade to version 2 is declined: success,
\* pending_version cleared on disk, current still on v1
C22_Witness ==
    /\ Declined
    /\ result[Self] = "nil"
    /\ runtime = Persisted(st)
    /\ runtime.s.pending_version = EmptyStr
    /\ runtime.s.current_version = V1
    /\ effective.version = V2
    /\ current.target = VersionDir(V1)
    /\ \E i \in DOMAIN log : log[i].event = "SWITCH_USER_DECLINED"

\* ------------------------------------------------------------------------
\* C23: the state write fails after a completed switch
\* ------------------------------------------------------------------------
FinalWriteFailed == pc[Self] = "done" /\ hist.exit = "final_save"

\* C23: when the write of runtime.json fails after SWITCH_CURRENT and a passed
\* health check, Update returns an error, current still resolves to the new
\* version directory, which exists, no rollback was made and the lock file is
\* gone
C23_SwitchSurvivesWriteFailure ==
    FinalWriteFailed =>
        /\ result[Self] \notin {"none", "nil"}
        /\ hist.switched /\ hist.health = "nil" /\ hist.rollbacks = 0
        /\ resolveCurrentTarget(current) = VersionDir(effective.version)
        /\ DirName(effective.version) \in DOMAIN dirs
        /\ lockFile.kind = "absent"

\* the upgrade from version 1 to 2 switched current and then failed to write
\* runtime.json, which still names version 1
C23_Witness ==
    /\ FinalWriteFailed
    /\ result[Self] = "write runtime state"
    /\ effective.version = V2
    /\ resolveCurrentTarget(current) = VersionDir(V2)
    /\ runtime.s.current_version = V1
    /\ lockFile.kind = "absent"

\* ------------------------------------------------------------------------
\* C24: the run after a crash between the pointer flip and the state write
\* ------------------------------------------------------------------------
\* when the transaction began, current resolved to the version directory of
\* the version the manifest asks for, and that directory existed
InstalledAtStart ==
    /\ effective.version # EmptyStr
    /\ resolveCurrentTarget(hist.current0) = VersionDir(effective.version)
    /\ DirName(effective.version) \in DOMAIN hist.dirs0

\* the transaction did not go beyond the fast path
StoppedAtFastPath ==
    /\ Running(Self) => HereRank <= Rank("FAST_PATH")
    /\ pc[Self] = "done" => hist.exit \in BeforeStagingExits \ {"stage_prep"}
    /\ hist.requests = 0 /\ ~hist.committed

\* C24: after a process exit that followed the pointer flip, the next run
\* takes the installed version from current: when current resolves to the
\* version directory of the manifest's version, the run treats the version as
\* installed and stages, downloads and commits nothing
C24_NextRunRederivesCurrent ==
    (prev.result = "exited" /\ InstalledAtStart) => StoppedAtFastPath

\* ------------------------------------------------------------------------
\* C25: failures of the event log do not change the transaction
\* ------------------------------------------------------------------------
\* a step of Update that calls logEvent
LoggingStep ==
    \/ BeginAny(Self)
    \/ DownloadBegin(Self)
    \/ Download(Self)
    \/ Verify(Self)
    \/ Extract(Self)
    \/ PreInstallBegin(Self)
    \/ PreInstall(Self)
    \/ Confirm(Self)
    \/ StopProcessesBegin(Self)
    \/ TermFind
    \/ TermClose
    \/ TermSoftKill
    \/ TermForceKill
    \/ StopProcesses(Self)
    \/ AfterSwitch(Self)
    \/ Healthcheck(Self)
    \/ AfterRollback(Self)
    \/ FinalCleanup(Self)

\* the same step with the opposite outcome of its logEvent calls, compared on
\* everything but the log
TwinStep ==
    \/ \E logOk \in BOOLEAN : BeginCore(Self, logOk, ~logOk, FALSE, log)
    \/ DownloadBeginWith(Self, ~opts.logOk, FALSE, log)
    \/ DownloadWith(Self, ~opts.logOk, FALSE, log)
    \/ VerifyWith(Self, ~opts.logOk, FALSE, log)
    \/ ExtractWith(Self, ~opts.logOk, FALSE, log)
    \/ PreInstallBeginWith(Self, ~opts.logOk, FALSE, log)
    \/ PreInstallWith(Self, ~opts.logOk, FALSE, log)
    \/ ConfirmWith(Self, ~opts.logOk, FALSE, log)
    \/ StopProcessesBeginWith(Self, ~opts.logOk, FALSE, log)
    \/ TermFindWith(~opts.logOk, FALSE, log)
    \/ TermCloseWith(~opts.logOk, FALSE, log)
    \/ TermSoftKillWith(~opts.logOk, FALSE, log)
    \/ TermForceKillWith(~opts.logOk, FALSE, log)
    \/ StopProcessesWith(Self, ~opts.logOk, FALSE, log)
    \/ AfterSwitchWith(Self, ~opts.logOk, FALSE, log)
    \/ HealthcheckWith(Self, ~opts.logOk, FALSE, log)
    \/ AfterRollbackWith(Self, ~opts.logOk, FALSE, log)
    \/ FinalCleanupWith(Self, ~opts.logOk, FALSE, log)

\* C25: whether its logEvent calls succeed or fail, a step of Update has the
\* same effect on the returned error, the runtime state in memory and on disk,
\* the lock file, current, the version directories and staging, and goes on
\* to the same position: every step taken with one outcome of the log writes
\* is also a step with the other outcome
C25_LogFailuresNeverEscalate == [][LoggingStep => TwinStep]_vars

\* an upgrade went through to the end although no event could be written
C25_Witness ==
    /\ pc[Self] = "done"
    /\ ~opts.logOk
    /\ result[Self] = "nil"
    /\ hist.exit = "installed"
    /\ log = << >>
    /\ effective.version = V2
    /\ resolveCurrentTarget(current) = VersionDir(V2)


\* ------------------------------------------------------------------------
\* C26: readers of current accept both forms of the pointer: the health
\* check of current/<bin> fails for a missing bin exactly when the version
\* directory current stands for, by link or by marker file, has no bin.
\* ------------------------------------------------------------------------
\* the directory a reader that accepts both forms arrives at contains bin
TargetHasBin(cur, ds) ==
    /\ DirAt(resolveCurrentTarget(cur)) \in DOMAIN ds
    /\ ds[DirAt(resolveCurrentTarget(cur))].bin

HealthcheckTaken ==
    /\ pc[Self] = "healthcheck"
    /\ pc'[Self] # "healthcheck"
    /\ effective.bin # EmptyStr

C26_MarkerPassesLikeLink ==
    [][HealthcheckTaken =>
         ((hist'.health = "healthcheck missing bin") <=> ~TargetHasBin(current, dirs))]_vars


\* ------------------------------------------------------------------------
\* switchCurrent followed by resolveCurrentTarget, on any path
\* ------------------------------------------------------------------------
MaxPathLen == 4

PathChars == {"/", ".", "v", " "}

\* the targets: every path string that is not empty
Paths == UNION {[1..n -> PathChars] : n \in 1..MaxPathLen}

\* what current may be before the switch
CurrentsBefore ==
    {AbsentCurrent, [form |-> "emptydir", target |-> EmptyStr],
     [form |-> "link", target |-> VersionDir(V1)],
     [form |-> "marker", target |-> VersionDir(V1)]}

\* switchCurrent(current, target) is called on its own, as the test does
InitSwitch ==
    /\ pc = [p \in Procs |-> IF p = Self THEN "sw_remove" ELSE "idle"]
    /\ result = [p \in Procs |-> "none"]
    /\ lockFile = AbsentLock
    /\ runtime = NoRuntime
    /\ current \in CurrentsBefore
    /\ dirs = << >>
    /\ staging = {}
    /\ log = << >>
    /\ st = ZeroState
    /\ effective = NoManifest
    /\ artifact = NoArtifact
    /\ pkg = NoPkg
    /\ extracted = NoExtract
    /\ prevTarget = EmptyStr
    /\ \E t \in Paths : sw = [mode |-> "probe", target |-> t, ret |-> "nil"]
    /\ opts = [logOk |-> TRUE]
    /\ hist = NoHist
    /\ txns = 0
    /\ prev = NoPrev
    /\ clock = 0
    /\ batch = NoBatch
    /\ run = NoRun
    /\ unz = NoUnzip
    /\ term = NoTerm
    /\ disco = NoDisco

\* resolveCurrentTarget(current) after switchCurrent returned
ReadBack(p) ==
    /\ pc[p] = "sw_ret"
    /\ sw.mode = "probe"
    /\ prevTarget' = resolveCurrentTarget(current)
    /\ Goto(p, "done")
    /\ UNCHANGED <<result, lockFile, runtime, current, dirs, staging, log, st,
                   effective, artifact, pkg, extracted, sw, opts, hist, txns,
                   prev, clock, batch, run, unz, term, disco>>

NextSwitch ==
    \/ SwitchRemove(Self)
    \/ SwitchCreate(Self)
    \/ SwitchMarker(Self)
    \/ ReadBack(Self)

SpecSwitch == InitSwitch /\ [][NextSwitch]_vars

\* ------------------------------------------------------------------------
\* C27: read-back of current is symmetrical with the switch: after
\* switchCurrent(current, target) succeeded, resolveCurrentTarget(current)
\* is target, for the link and for the marker form; when current does not
\* exist the read-back is the empty target.
\* ------------------------------------------------------------------------
ReadBackDone == pc[Self] = "done" /\ sw.mode = "probe"

\* as stated, for any target
C27_ReadBackAnyTarget ==
    ReadBackDone /\ sw.ret = "nil" => prevTarget = sw.target

\* an absolute path with no empty element, hence no separator at its end, and
\* no element that ends in a period, hence none that is "." or ".."
NormalPath(path) ==
    /\ IsAbs(path)
    /\ \A i \in 2..Len(Elements(path)) :
          /\ Elements(path)[i] # << >>
          /\ Elements(path)[i][Len(Elements(path)[i])] # "."

\* for targets that are absolute paths in normal form and neither start nor
\* end with whitespace; for every target the marker is read back trimmed and
\* the link as an absolute path in clean form
C27_ReadBackSymmetrical ==
    /\ ReadBackDone /\ sw.ret = "nil" /\ NormalPath(sw.target)
                    /\ TrimSpace(sw.target) = sw.target
          => /\ current.form \in {"link", "marker"}
             /\ prevTarget = sw.target
    /\ ReadBackDone /\ sw.ret = "nil" /\ current.form = "marker"
          => prevTarget = TrimSpace(sw.target)
    /\ ReadBackDone /\ sw.ret = "nil" /\ current.form = "link"
          => /\ IsAbs(prevTarget)
             /\ prevTarget = FullPath(prevTarget)
    /\ ReadBackDone /\ current.form = "absent" => prevTarget = EmptyStr

\* a junction to /v/v was made and read back
C27_Witness ==
    /\ ReadBackDone
    /\ sw.ret = "nil"
    /\ current.form = "link"
    /\ sw.target = <<"/", "v", "/", "v">>
    /\ prevTarget = sw.target

\* a junction made for the relative target v is read back as the path from the
\* working directory
C27_WitnessRelative ==
    /\ ReadBackDone
    /\ sw.ret = "nil"
    /\ current.form = "link"
    /\ sw.target = <<"v">>
    /\ prevTarget = <<"/", "w", "/", "v">>


\* ------------------------------------------------------------------------
\* C28: a failed forced kill is fatal: terminateProcesses logs
\* SWITCH_PROCESS_FORCE_FAILED and returns the error, Update records
\* SWITCH_PROCESS as last_error_code and returns the error, and current is
\* what it was when the transaction began.
\* ------------------------------------------------------------------------
ForceFailedLogged ==
    \E i \in 1..Len(log) : log[i].event = "SWITCH_PROCESS_FORCE_FAILED"

ForceKillFailed ==
    /\ pc[Self] = "done"
    /\ hist.exit = "stop_processes"
    /\ result[Self] = "taskkill failed"

\* the event of the failed kill, then the event of the failed stage, both tagged
ForceFailureTrail ==
    /\ Len(log) >= 2
    /\ log[Len(log) - 1] =
          [event |-> "SWITCH_PROCESS_FORCE_FAILED", error_code |-> ErrCodeSwitchProcess]
    /\ log[Len(log)] =
          [event |-> "SWITCH_PROCESS_FAILED", error_code |-> ErrCodeSwitchProcess]

C28_ForceKillFailureIsFatal ==
    /\ ForceKillFailed =>
          /\ st.last_error_code = ErrCodeSwitchProcess
          /\ st.pending_version = EmptyStr
          /\ runtime \in {Persisted(st), StagePrepRuntime}
          /\ current = hist.current0
          /\ ~hist.switched
          /\ opts.logOk => ForceFailureTrail
    /\ ForceFailedLogged /\ pc[Self] # "idle"
          => \/ ForceKillFailed
             \/ /\ pc[Self] = "stop_wait"
                /\ term.pos = "returned"
                /\ term.err = "taskkill failed"

\* an upgrade of an installed app stopped by a process that could not be killed
C28_Witness ==
    /\ ForceKillFailed
    /\ ForceFailureTrail
    /\ current.form = "link"
    /\ resolveCurrentTarget(current) # VersionDir(effective.version)
    /\ runtime = Persisted(st)
    /\ runtime.s.last_error_code = ErrCodeSwitchProcess


\* a fresh workspace in which no transaction runs
NoTransaction ==
    /\ pc = [p \in Procs |-> "idle"]
    /\ result = [p \in Procs |-> "none"]
    /\ lockFile = AbsentLock
    /\ runtime = NoRuntime
    /\ current = AbsentCurrent
    /\ dirs = << >>
    /\ staging = {}
    /\ log = << >>
    /\ st = ZeroState
    /\ effective = NoManifest
    /\ artifact = NoArtifact
    /\ pkg = NoPkg
    /\ extracted = NoExtract
    /\ prevTarget = EmptyStr
    /\ sw = NoSwitch
    /\ opts = [logOk |-> TRUE]
    /\ hist = NoHist
    /\ txns = 0
    /\ prev = NoPrev
    /\ clock = 0

\* Update is between its call and the taking of its result
UpdateRunning == pc[Self] # "idle"

\* ------------------------------------------------------------------------
\* executeUpdate: the batch update over manifests/
\* ------------------------------------------------------------------------
\* the names an entry of manifests/ may have, in the order of os.ReadDir
\* (sorted by filename)
DotJson == <<".", "j", "s", "o", "n">>

NameOrder ==
    << DotJson,
       <<"a", ".", "J", "S", "O", "N">>,
       <<"b">> \o DotJson,
       <<"c", ".", "t", "x", "t">>,
       <<"d">> \o DotJson >>

NameSet == {NameOrder[i] : i \in 1..Len(NameOrder)}

\* manifests/: each entry is a file or a directory
Listings == UNION {[ns -> {"file", "dir"}] : ns \in SUBSET NameSet}

\* filepath.Ext: the suffix that begins at the last dot
LastDot(name) ==
    LET dots == {i \in 1..Len(name) : name[i] = "."}
    IN  IF dots = {} THEN 0 ELSE CHOOSE i \in dots : \A j \in dots : j <= i

Ext(name) ==
    IF LastDot(name) = 0 THEN EmptyStr ELSE SubSeq(name, LastDot(name), Len(name))

\* strings.EqualFold
EqualFold(a, b) == ToLower(a) = ToLower(b)

HasSuffix(s, suf) ==
    /\ Len(s) >= Len(suf)
    /\ SubSeq(s, Len(s) - Len(suf) + 1, Len(s)) = suf

\* strings.TrimSuffix
TrimSuffix(s, suf) ==
    IF HasSuffix(s, suf) THEN SubSeq(s, 1, Len(s) - Len(suf)) ELSE s

\* os.ReadDir: the entries sorted by filename
ReadDir(entries) == SelectSeq(NameOrder, LAMBDA n : n \in DOMAIN entries)

\* the entry becomes a job: not a directory, extension .json in any letter
\* case, and a name left before the extension
IsJob(entries, name) ==
    /\ entries[name] # "dir"
    /\ EqualFold(Ext(name), DotJson)
    /\ TrimSuffix(name, Ext(name)) # EmptyStr

JobOf(name) == [app |-> TrimSuffix(name, Ext(name)), manifestPath |-> name]

RECURSIVE JobsFrom(_)
JobsFrom(names) ==
    IF names = << >> THEN << >> ELSE <<JobOf(Head(names))>> \o JobsFrom(Tail(names))

Jobs(entries) ==
    JobsFrom(SelectSeq(ReadDir(entries), LAMBDA n : IsJob(entries, n)))

NoSummary == [total |-> -1, success |-> -1, failed |-> -1]

Summary(total, success, failed) ==
    [total |-> total, success |-> success, failed |-> failed]

NotExited == -1

\* faulty variant of StopAtFailure: every failure ends the batch
StopAtFailureAlways(failFast) == TRUE

\* faulty variant of StopAtFailure: no failure ends the batch
StopAtFailureNever(failFast) == FALSE

\* `if *failFast` after a failed app
StopAtFailure(failFast) == failFast

\* the manifests a batch is tried on: one that installs and one whose package
\* fails the hash check
BatchManifests == {ManGood1, ManCorrupt1}

\* --checkver, --prompt-switch and --relaunch, all given or none
BatchFlags ==
    {[checkver |-> f, promptSwitch |-> f, relaunch |-> f] : f \in BOOLEAN}

\* update is called with or without --fail-fast on some manifests directory, at
\* the output level silent or another; its commandOutput is made
InitBatch ==
    /\ NoTransaction
    /\ \E entries \in Listings, failFast \in BOOLEAN, silent \in BOOLEAN,
          flags \in BatchFlags :
          batch = [pos |-> "scan", entries |-> entries, failFast |-> failFast,
                   silent |-> silent, flags |-> flags,
                   listed |-> FALSE, jobs |-> << >>, i |-> 1, man |-> NoManifest,
                   successCount |-> 0, failCount |-> 0, attempted |-> << >>,
                   summary |-> NoSummary, code |-> NotExited]
    /\ run = NoRun
    /\ unz = NoUnzip
    /\ term = NoTerm
    /\ disco = NoDisco

BatchFrame == UNCHANGED <<pc, result, lockFile, txnVarsOfApp, run, unz, term, disco>>

\* ensureWorkspaceReady, os.ReadDir(manifestsDir) and the collection of jobs
BatchScan ==
    /\ batch.pos = "scan"
    /\ \E ready \in BOOLEAN, readOk \in BOOLEAN :
          IF ~ready \/ ~readOk
          THEN batch' = [batch EXCEPT !.pos = "exit", !.code = 1]
          ELSE LET jobs == Jobs(batch.entries)
               IN  IF Len(jobs) = 0
                   THEN batch' = [batch EXCEPT !.pos = "exit", !.listed = TRUE,
                                               !.code = 0]
                   ELSE batch' = [batch EXCEPT !.pos = "loop", !.listed = TRUE,
                                               !.jobs = jobs]
    /\ BatchFrame

\* what printDefault("update summary: ...") leaves on stdout: nothing at the
\* output level silent
Reported(b, summary) == IF b.silent THEN NoSummary ELSE summary

\* the loop of executeUpdate after executeUpdateFromManifest returned err
AfterApp(b, err) ==
    IF err # "nil"
    THEN IF StopAtFailure(b.failFast)
         THEN [b EXCEPT !.failCount = @ + 1,
                        !.summary = Reported(b, Summary(Len(b.jobs), b.successCount,
                                                        b.failCount + 1)),
                        !.code = 1,
                        !.man = NoManifest,
                        !.pos = "exit"]
         ELSE [b EXCEPT !.failCount = @ + 1, !.i = @ + 1, !.man = NoManifest,
                        !.pos = "loop"]
    ELSE [b EXCEPT !.successCount = @ + 1, !.i = @ + 1, !.man = NoManifest,
                   !.pos = "loop"]

\* one iteration of the loop over jobs, up to the call of Update in
\* executeUpdateFromManifest: config.Load or manifest.ParseFile may fail;
\* otherwise Update starts on the directory of the next app, a fresh one
BatchUpdateApp ==
    /\ batch.pos = "loop"
    /\ batch.i <= Len(batch.jobs)
    /\ LET b == [batch EXCEPT !.attempted = Append(@, batch.jobs[batch.i].app)]
       IN  \E configOk \in BOOLEAN, parseOk \in BOOLEAN, man \in BatchManifests :
              batch' = IF ~configOk THEN AfterApp(b, "load config")
                       ELSE IF ~parseOk THEN AfterApp(b, "parse manifest")
                       ELSE [b EXCEPT !.pos = "updating", !.man = man]
    /\ lockFile' = AbsentLock
    /\ runtime' = NoRuntime
    /\ current' = AbsentCurrent
    /\ dirs' = << >>
    /\ staging' = {}
    /\ txns' = 0
    /\ clock' = 0
    /\ UNCHANGED <<pc, result, log, st, effective, artifact, pkg, extracted, prevTarget,
                   sw, opts, hist, prev, run, unz, term, disco>>

\* Update on the app of this iteration: one step
BatchUpdating ==
    /\ batch.pos = "updating"
    /\ TxnStepOf({batch.man}, {batch.flags.checkver}, {batch.flags.promptSwitch},
                 {batch.flags.relaunch})

\* executeUpdateFromManifest has returned: the counts, and under fail_fast the
\* summary and the return
BatchReturn ==
    /\ batch.pos = "updating"
    /\ pc[Self] = "done"
    /\ batch' = AfterApp(batch, result[Self])
    /\ FinishReset(Self, prev)
    /\ UNCHANGED run

\* after the loop: the summary and the exit code
BatchSummary ==
    /\ batch.pos = "loop"
    /\ batch.i > Len(batch.jobs)
    /\ batch' = [batch EXCEPT
                   !.summary = Reported(batch, Summary(Len(batch.jobs), batch.successCount,
                                                       batch.failCount)),
                   !.code = IF batch.failCount > 0 THEN 1 ELSE 0,
                   !.pos = "exit"]
    /\ BatchFrame

NextBatch == BatchScan \/ BatchUpdateApp \/ BatchUpdating \/ BatchReturn \/ BatchSummary

SpecBatch == InitBatch /\ [][NextBatch]_vars


\* ------------------------------------------------------------------------
\* C29: a batch update without fail_fast attempts every manifest once, in
\* name order, goes on after a failing app, reports a summary with
\* success + failed = total, and exits nonzero exactly when an app failed.
\* ------------------------------------------------------------------------
RECURSIVE AppsOf(_)
AppsOf(jobs) ==
    IF jobs = << >> THEN << >> ELSE <<Head(jobs).app>> \o AppsOf(Tail(jobs))

\* the files manifests/*.json, in name order
GlobJson(entries) ==
    SelectSeq(ReadDir(entries),
              LAMBDA n : entries[n] = "file" /\ HasSuffix(n, DotJson))

BatchExited == batch.pos = "exit"

SummaryAddsUp ==
    /\ batch.summary # NoSummary
    /\ batch.summary.success + batch.summary.failed = batch.summary.total

\* as stated: whatever manifests/ holds, whether or not it can be listed, and
\* at every output level
C29_BatchAlwaysSummarises ==
    BatchExited /\ ~batch.failFast =>
        /\ \A k \in 1..Len(GlobJson(batch.entries)) :
              \E j \in 1..Len(batch.attempted) :
                  batch.attempted[j] = TrimSuffix(GlobJson(batch.entries)[k], DotJson)
        /\ SummaryAddsUp
        /\ (batch.code # 0) <=> (batch.failCount > 0)

\* with manifests/ listed: all jobs attempted once and in order, one app at a
\* time, the counts add up to the number of jobs and, unless the output level
\* is silent, the summary reports them; with no job there is no summary and
\* the exit code is 0; with manifests/ not listed nothing is attempted and the
\* exit code is 1
C29_BatchAttemptsAll ==
    /\ UpdateRunning => batch.pos = "updating"
    /\ batch.pos = "updating" => batch.attempted = SubSeq(AppsOf(batch.jobs), 1, batch.i)
    /\ BatchExited /\ ~batch.failFast =>
        IF batch.listed /\ Jobs(batch.entries) # << >>
        THEN /\ batch.attempted = AppsOf(Jobs(batch.entries))
             /\ \A a, b \in 1..Len(batch.attempted) :
                   a # b => batch.attempted[a] # batch.attempted[b]
             /\ batch.successCount + batch.failCount = Len(Jobs(batch.entries))
             /\ ~batch.silent => SummaryAddsUp
             /\ batch.summary = Reported(batch, Summary(Len(Jobs(batch.entries)),
                                                       batch.successCount, batch.failCount))
             /\ (batch.code # 0) <=> (batch.failCount > 0)
        ELSE /\ batch.attempted = << >>
             /\ batch.summary = NoSummary
             /\ batch.code = IF batch.listed THEN 0 ELSE 1

\* one of three manifests fails, the other two are still updated, the last
\* of them installed
C29_Witness ==
    /\ BatchExited
    /\ ~batch.failFast
    /\ ~batch.silent
    /\ Len(batch.attempted) = 3
    /\ batch.summary = Summary(3, 2, 1)
    /\ batch.code = 1
    /\ DotJson \in DOMAIN batch.entries
    /\ prev = NoPrev
    /\ current = [form |-> "link", target |-> VersionDir(V1)]

\* ------------------------------------------------------------------------
\* C30: with fail_fast the batch stops at the first failing app: no later
\* app is attempted, the summary has failed = 1, success = the apps completed
\* before it and total = all manifests, and the exit code is nonzero.
\* ------------------------------------------------------------------------
FailedFast == batch.failFast /\ batch.failCount > 0

\* as stated: the summary is reported at every output level
C30_FailFastState ==
    FailedFast =>
        /\ BatchExited
        /\ batch.failCount = 1
        /\ batch.successCount = Len(batch.attempted) - 1
        /\ batch.attempted = SubSeq(AppsOf(Jobs(batch.entries)), 1, Len(batch.attempted))
        /\ batch.summary = Summary(Len(Jobs(batch.entries)), Len(batch.attempted) - 1, 1)
        /\ batch.code # 0

C30_StopsAtFirstFailure ==
    []C30_FailFastState /\ [][FailedFast => batch' = batch /\ pc' = pc]_vars

\* the batch has stopped at the first failure; the summary is reported unless
\* the output level is silent, at which nothing is written to stdout
C30_FailFastReported ==
    FailedFast =>
        /\ BatchExited
        /\ ~UpdateRunning
        /\ batch.failCount = 1
        /\ batch.successCount = Len(batch.attempted) - 1
        /\ batch.attempted = SubSeq(AppsOf(Jobs(batch.entries)), 1, Len(batch.attempted))
        /\ batch.summary = Reported(batch, Summary(Len(Jobs(batch.entries)),
                                                  Len(batch.attempted) - 1, 1))
        /\ batch.code # 0

C30_StopsAtFirstFailureReported ==
    []C30_FailFastReported /\ [][FailedFast => batch' = batch /\ pc' = pc]_vars

\* the second of three manifests fails: the third is never attempted
C30_Witness ==
    /\ FailedFast
    /\ ~batch.silent
    /\ Len(Jobs(batch.entries)) = 3
    /\ Len(batch.attempted) = 2
    /\ batch.summary = Summary(3, 1, 1)
    /\ batch.code = 1
    /\ prev = NoPrev
    /\ runtime.exists /\ runtime.s.last_error_code = ErrCodePkgVerify

\* the same at the output level silent: no summary
C30_WitnessSilent ==
    /\ FailedFast
    /\ batch.silent
    /\ Len(batch.attempted) = 2
    /\ batch.summary = NoSummary
    /\ batch.code = 1


\* ------------------------------------------------------------------------
\* executeRun from "run start" on, and main's os.Exit
\* ------------------------------------------------------------------------
\* the manifests `run` is tried on
RunManifests == {ManGood1, ManGood2, ManCorrupt1}

\* manifests/<app>.json: missing, not to be read, not a manifest, or a manifest
ManifestFiles ==
    {[file |-> f, man |-> NoManifest] : f \in {"absent", "denied", "invalid"}}
    \cup {[file |-> "ok", man |-> m] : m \in RunManifests}

\* the workspaces `run` is tried on: a fresh one, and one with the directory
\* of version 1 (with or without the binary), current a link, a directory
\* holding the marker file, a plain directory with or without the binary in
\* it, or removed, runtime.json on version 1 or missing
RunWorkspaces ==
    {[dirs |-> << >>, current |-> AbsentCurrent, runtime |-> NoRuntime]}
    \cup {[dirs |-> [n \in {DirName(V1)} |-> [OldDir(DirName(V1), -1) EXCEPT !.bin = b]],
           current |-> c,
           runtime |-> IF known THEN Persisted([ZeroState EXCEPT !.current_version = V1])
                       ELSE NoRuntime] :
             b \in BOOLEAN, known \in BOOLEAN,
             c \in {AbsentCurrent, [form |-> "link", target |-> VersionDir(V1)],
                    [form |-> "marker", target |-> VersionDir(V1)],
                    [form |-> "emptydir", target |-> EmptyStr],
                    [form |-> "bindir", target |-> EmptyStr]}}

\* executeRun has parsed its arguments, resolved root and output level and
\* made its commandOutput and updateOptions
InitRunCmd ==
    /\ pc = [p \in Procs |-> "idle"]
    /\ result = [p \in Procs |-> "none"]
    /\ lockFile = AbsentLock
    /\ \E w \in RunWorkspaces :
          /\ dirs = w.dirs
          /\ current = w.current
          /\ runtime = w.runtime
    /\ staging = {}
    /\ log = << >>
    /\ st = ZeroState
    /\ effective = NoManifest
    /\ artifact = NoArtifact
    /\ pkg = NoPkg
    /\ extracted = NoExtract
    /\ prevTarget = EmptyStr
    /\ sw = NoSwitch
    /\ opts = [logOk |-> TRUE]
    /\ hist = NoHist
    /\ txns = 0
    /\ prev = NoPrev
    /\ clock = 0
    /\ batch = NoBatch
    /\ \E silent \in BOOLEAN, mf \in ManifestFiles :
          run = [pos |-> "start", silent |-> silent, manifest |-> mf.file, man |-> mf.man,
                 installed |-> FALSE, launched |-> FALSE, spawned |-> FALSE,
                 update |-> "none", reported |-> FALSE, code |-> NotExited,
                 stdout |-> << >>, stderr |-> << >>]
    /\ unz = NoUnzip
    /\ term = NoTerm
    /\ disco = NoDisco

RunFrame == UNCHANGED <<pc, result, lockFile, txnVarsOfApp, batch, unz, term, disco>>

\* commandOutput.printDefault: nothing at the output level silent
printDefault(r, line) ==
    IF r.silent THEN r ELSE [r EXCEPT !.stdout = Append(@, line)]

\* commandOutput.printError
printError(r, line) == [r EXCEPT !.stderr = Append(@, line)]

\* printError and return 1
RunFails(r, line) == [printError(r, line) EXCEPT !.pos = "returned", !.code = 1]

\* the appstract process is alive and main has not called os.Exit
RunAlive == run.pos \notin {"none", "exited"}

\* os.Stat(currentPath) finds something: a directory, or a link to a
\* directory that is there
StatCurrent(cur, ds) ==
    \/ cur.form \in {"marker", "emptydir", "bindir"}
    \/ cur.form = "link" /\ DirAt(cur.target) \in DOMAIN ds

\* "run start" and ensureWorkspaceReady
RunStart ==
    /\ run.pos = "start"
    /\ \E ready \in BOOLEAN :
          run' = IF ready
                 THEN [printDefault(run, "run start") EXCEPT !.pos = "stat_current"]
                 ELSE RunFails(printDefault(run, "run start"), "workspace not ready")
    /\ RunFrame

\* os.Stat(currentPath) and, when current does not exist, os.Stat(manifestPath)
RunStatCurrent ==
    /\ run.pos = "stat_current"
    /\ \E denied \in BOOLEAN :
          run' = IF denied THEN RunFails(run, "stat failed")
                 ELSE IF StatCurrent(current, dirs) THEN [run EXCEPT !.pos = "parse"]
                 ELSE IF run.manifest = "absent"
                 THEN RunFails(run, "has no current version")
                 ELSE IF run.manifest = "denied" THEN RunFails(run, "stat failed")
                 ELSE [printDefault(run, "auto-installing from manifest")
                          EXCEPT !.pos = "install"]
    /\ RunFrame

\* executeUpdateFromManifest in the foreground, up to the call of Update:
\* config.Load and manifest.ParseFile may fail
RunInstall ==
    /\ run.pos = "install"
    /\ \E configOk \in BOOLEAN :
          run' = IF configOk /\ run.manifest = "ok"
                 THEN [run EXCEPT !.pos = "installing"]
                 ELSE RunFails(run, "install app for run failed")
    /\ RunFrame

\* the Update of `run`: UseCheckver, PromptSwitch and Relaunch are not set
RunUpdates == TxnStepOf({run.man}, {FALSE}, {FALSE}, {FALSE})

\* the foreground install: one step of Update
RunInstalling ==
    /\ run.pos = "installing"
    /\ ~run.installed
    /\ RunUpdates

\* executeUpdateFromManifest has returned in the foreground
RunInstalled ==
    /\ run.pos = "installing"
    /\ pc[Self] = "done"
    /\ run' = IF result[Self] # "nil"
              THEN [RunFails(run, "install app for run failed") EXCEPT !.installed = TRUE]
              ELSE IF ~StatCurrent(current, dirs)
              THEN [RunFails(printDefault(run, "[ok] auto-install completed"),
                             "has no current version") EXCEPT !.installed = TRUE]
              ELSE [printDefault(run, "[ok] auto-install completed")
                       EXCEPT !.pos = "parse", !.installed = TRUE]
    /\ FinishReset(Self, prev)
    /\ UNCHANGED batch

\* manifest.ParseFile(manifestPath) and os.Stat(binPath)
RunParse ==
    /\ run.pos = "parse"
    /\ \E denied \in BOOLEAN :
          run' = IF run.manifest # "ok" THEN RunFails(run, "load manifest for run")
                 ELSE IF denied THEN RunFails(run, "stat failed")
                 ELSE IF ~StatCurrentBin(current, dirs) THEN RunFails(run, "bin missing")
                 ELSE [run EXCEPT !.pos = "launch"]
    /\ RunFrame

\* "launching app binary" and runLaunch(binPath)
RunLaunch ==
    /\ run.pos = "launch"
    /\ \E ok \in BOOLEAN :
          run' = IF ok
                 THEN [printDefault(run, "launching app binary")
                          EXCEPT !.launched = TRUE, !.pos = "spawn"]
                 ELSE RunFails(printDefault(run, "launching app binary"),
                               "launch app failed")
    /\ RunFrame

\* go func() { runAsyncUpdate(...) }()
RunSpawn ==
    /\ run.pos = "spawn"
    /\ run' = [run EXCEPT !.spawned = TRUE, !.pos = "return"]
    /\ RunFrame

\* faulty variant of RunReturn: run waits for the update and returns its failure
RunReturnAwaiting ==
    /\ run.pos = "return"
    /\ run.update = "config" \/ pc[Self] = "done"
    /\ run' = [printDefault(run, "[ok] run-started") EXCEPT
                  !.pos = "returned",
                  !.code = IF run.update = "loaded" /\ result[Self] = "nil" THEN 0 ELSE 1]
    /\ RunFrame

\* output.printDefault("[ok] run-started") and return 0
RunReturn ==
    /\ run.pos = "return"
    /\ run' = [printDefault(run, "[ok] run-started") EXCEPT !.pos = "returned", !.code = 0]
    /\ RunFrame

\* the goroutine: executeUpdateFromManifest up to the call of Update
RunGoroutine ==
    /\ RunAlive
    /\ run.spawned
    /\ run.update = "none"
    /\ \E configOk \in BOOLEAN :
          run' = [run EXCEPT !.update = IF configOk THEN "loaded" ELSE "config"]
    /\ RunFrame

\* the goroutine: one step of Update
RunBackground ==
    /\ RunAlive
    /\ run.update = "loaded"
    /\ RunUpdates

\* the goroutine after runAsyncUpdate returned: the error goes to stderr
RunReport ==
    /\ RunAlive
    /\ ~run.reported
    /\ \/ run.update = "config"
       \/ run.update = "loaded" /\ pc[Self] = "done"
    /\ run' = [(IF run.update = "config" \/ result[Self] # "nil"
                THEN printError(run, "background update failed") ELSE run)
                  EXCEPT !.reported = TRUE]
    /\ RunFrame

\* main: os.Exit(code) ends the process and the goroutine with it, wherever
\* Update is; deferred calls do not run
MainExit ==
    /\ run.pos = "returned"
    /\ run' = [run EXCEPT !.pos = "exited"]
    /\ IF pc[Self] \notin {"idle", "done"}
       THEN /\ Goto(Self, "done")
            /\ result' = [result EXCEPT ![Self] = "exited"]
            /\ lockFile' = LockAfterExit(Self)
            /\ term' = NoTerm
       ELSE UNCHANGED <<pc, result, lockFile, term>>
    /\ UNCHANGED <<txnVarsOfApp, batch, unz, disco>>

NextRunCmd ==
    \/ RunStart
    \/ RunStatCurrent
    \/ RunInstall
    \/ RunInstalling
    \/ RunInstalled
    \/ RunParse
    \/ RunLaunch
    \/ RunSpawn
    \/ RunReturn
    \/ RunGoroutine
    \/ RunBackground
    \/ RunReport
    \/ MainExit

SpecRunCmd == InitRunCmd /\ [][NextRunCmd]_vars

\* ------------------------------------------------------------------------
\* C31: run launches the binary before it starts the update, the update runs
\* beside the return of run, and run's exit code is 0 after a successful
\* launch whatever the update does; a failed update is reported on stderr.
\* ------------------------------------------------------------------------
HasLine(out, line) == \E i \in 1..Len(out) : out[i] = line

UpdateBegun == UpdateRunning

\* the update started by the go statement
BackgroundBegun == run.update # "none"

RunReturned == run.pos \in {"returned", "exited"}

\* the background update returned an error
BackgroundFailed ==
    \/ run.update = "config"
    \/ run.update = "loaded" /\ pc[Self] = "done" /\ result[Self] \notin {"nil", "exited"}

C31_RunIgnoresUpdateFailure ==
    /\ run.spawned => run.launched
    /\ BackgroundBegun => run.launched /\ run.spawned
    /\ UpdateBegun => run.pos = "installing" \/ run.update = "loaded"
    /\ run.pos = "installing" => ~run.launched
    /\ RunReturned => (run.code = 0 <=> run.launched)
    /\ ~RunReturned => run.code = NotExited
    /\ ~HasLine(run.stdout, "background update failed")
    /\ HasLine(run.stderr, "background update failed")
          => run.reported /\ BackgroundFailed
    /\ run.reported /\ BackgroundFailed
          => HasLine(run.stderr, "background update failed")
    /\ run.silent => run.stdout = << >>

\* run returned 0 while the update was still going, the update then failed
\* and the failure went to stderr
C31_Witness ==
    /\ run.pos = "returned"
    /\ run.code = 0
    /\ run.reported
    /\ ~run.installed
    /\ hist.exit = "verify"
    /\ HasLine(run.stderr, "background update failed")
    /\ run.stdout = <<"run start", "launching app binary", "[ok] run-started">>

\* ------------------------------------------------------------------------
\* unzip(src, dst): paths, filepath.Clean, the prefix check, the writes
\* ------------------------------------------------------------------------
MaxEntries == 2

MaxNameLen == 2

\* the path elements an entry name is made of
NameElems == {<<"e", "x">>, DotDot, Dot}

\* entry names of the archive (f.Name), as their elements
EntryNames == UNION {[1..n -> NameElems] : n \in 1..MaxNameLen}

Archives == UNION {[1..n -> EntryNames] : n \in 0..MaxEntries}

\* extractedRoot, under an absolute or a relative root
Destinations ==
    {[abs |-> TRUE, elems |-> <<<<"s">>, <<"e">>>>],
     [abs |-> FALSE, elems |-> <<<<"s">>, <<"e">>>>]}

\* filepath.Join(dst, name)
Join(dst, name) == Clean([abs |-> dst.abs, elems |-> dst.elems \o name])

\* filepath.Dir of a clean path
Dir(path) ==
    IF path.elems = << >> THEN path
    ELSE [path EXCEPT !.elems = SubSeq(@, 1, Len(@) - 1)]

\* faulty variant of InsideDst: the prefix is compared without the separator
InsideDstNoSeparator(dst, name) ==
    HasPrefix(PathString(Clean(Join(dst, name))), PathString(Clean(dst)))

\* strings.HasPrefix(cleanTarget, cleanDst) with cleanDst ending in the separator
InsideDst(dst, name) ==
    HasPrefix(PathString(Clean(Join(dst, name))), PathString(Clean(dst)) \o Separator)

\* the path and every directory above it
Ancestry(path) ==
    {[abs |-> path.abs, elems |-> SubSeq(path.elems, 1, n)] : n \in 0..Len(path.elems)}

\* os.MkdirAll(path) on a file system with the directories ds and the files
\* fs: it fails on a file in the way and creates nothing; otherwise it creates
\* the missing directories from the top down, all of them, or fails at one of them
MkdirAll(ds, fs, path) ==
    LET missing == Ancestry(path) \ ds
    IN  IF \E a \in Ancestry(path) : a \in fs
        THEN {[ok |-> FALSE, made |-> {}]}
        ELSE {[ok |-> TRUE, made |-> missing]}
             \cup {[ok |-> FALSE, made |-> {a \in missing : Len(a.elems) < m}] :
                      m \in 0..Len(path.elems)}

\* the package of version 1 as downloaded and verified; no entry name of
\* Archives is the extract_dir or the bin of the manifest
PkgArchive == [sha |-> <<"a", "1">>, zip |-> TRUE, sub |-> FALSE, binAt |-> "none"]

\* Update on a fresh app with the manifest of version 1 has come to the call of
\* unzip: lock held, pending_version saved, the staging directory made, the
\* package downloaded and verified
AtExtract ==
    LET s1 == [ZeroState EXCEPT !.last_check_at = 1, !.pending_version = V1]
    IN  /\ pc = [p \in Procs |-> IF p = Self THEN "extract" ELSE "idle"]
        /\ result = [p \in Procs |-> "none"]
        /\ lockFile = LockInfo(Getpid(Self), Self)
        /\ runtime = Persisted(s1)
        /\ current = AbsentCurrent
        /\ dirs = << >>
        /\ staging = {DirName(V1)}
        /\ log = logEvents(<< >>, TRUE, <<"UPDATE_BEGIN", "PKG_DOWNLOAD_BEGIN",
                                          "PKG_DOWNLOAD_DONE", "PKG_VERIFY_DONE">>)
        /\ st = s1
        /\ effective = EffectiveOf(ManGood1)
        /\ artifact = ManGood1.arch
        /\ extracted = NoExtract
        /\ prevTarget = EmptyStr
        /\ sw = NoSwitch
        /\ opts = [logOk |-> TRUE]
        /\ hist = [NoHist EXCEPT !.dirs0 = << >>, !.current0 = AbsentCurrent,
                                 !.runtime0 = NoRuntime, !.staging0 = {},
                                 !.hashless = TRUE, !.requests = 1, !.verified = TRUE]
        /\ txns = 1
        /\ prev = NoPrev
        /\ clock = 0
        /\ batch = NoBatch
        /\ run = NoRun
        /\ term = NoTerm
        /\ disco = NoDisco

\* unzip is called by Update; the directory above dst exists
InitUnzip ==
    /\ AtExtract
    /\ pkg = PkgArchive
    /\ \E archive \in Archives, dst \in Destinations :
          unz = [pos |-> "open", archive |-> archive, dst |-> dst, i |-> 1,
                 kinds |-> << >>,
                 dirs |-> Ancestry(Dir(Clean(dst))), files |-> {}, written |-> {},
                 err |-> "none"]

UnzipFrame ==
    UNCHANGED <<pc, result, lockFile, txnVarsOfApp, batch, run, term, disco>>

UnzipReturns(u, err) == [u EXCEPT !.pos = "returned", !.err = err]

\* zip.OpenReader(src)
UnzipOpen ==
    /\ unz.pos = "open"
    /\ \E ok \in BOOLEAN :
          unz' = IF ok THEN [unz EXCEPT !.pos = "mkdir"]
                 ELSE UnzipReturns(unz, "open zip")
    /\ UnzipFrame

\* os.MkdirAll(dst)
UnzipMkdirDst ==
    /\ unz.pos = "mkdir"
    /\ \E mk \in MkdirAll(unz.dirs, unz.files, Clean(unz.dst)) :
          LET u == [unz EXCEPT !.written = @ \cup mk.made, !.dirs = @ \cup mk.made]
          IN  unz' = IF mk.ok THEN [u EXCEPT !.pos = "entries"]
                     ELSE UnzipReturns(u, "create extract root")
    /\ UnzipFrame

\* what becomes of a file entry after its parent directory is there: f.Open
\* fails, os.OpenFile fails, io.Copy fails on the file created, or all succeed
FileOutcomes == {"open zip entry", "create extracted file", "extract file", "nil"}

\* one iteration of the loop over r.File; isDir is f.FileInfo().IsDir()
UnzipEntry ==
    /\ unz.pos = "entries"
    /\ unz.i <= Len(unz.archive)
    /\ LET name == unz.archive[unz.i]
           cleanTarget == Clean(Join(unz.dst, name))
       IN  IF ~InsideDst(unz.dst, name)
           THEN unz' = UnzipReturns(unz, "invalid zip path")
           ELSE \E isDir \in BOOLEAN :
                \E mk \in MkdirAll(unz.dirs, unz.files,
                                   IF isDir THEN cleanTarget ELSE Dir(cleanTarget)) :
                   LET u == [unz EXCEPT !.kinds = Append(@, isDir),
                                        !.written = @ \cup mk.made,
                                        !.dirs = @ \cup mk.made]
                   IN  IF ~mk.ok
                       THEN unz' = UnzipReturns(u, IF isDir THEN "create dir"
                                                    ELSE "create parent dir")
                       ELSE IF isDir
                       THEN unz' = [u EXCEPT !.i = @ + 1]
                       ELSE \E out \in FileOutcomes :
                               /\ cleanTarget \in u.dirs =>
                                     out \in {"open zip entry", "create extracted file"}
                               /\ LET v == IF out \in {"extract file", "nil"}
                                           THEN [u EXCEPT
                                                   !.written = @ \cup {cleanTarget},
                                                   !.files = @ \cup {cleanTarget}]
                                           ELSE u
                                  IN  unz' = IF out = "nil" THEN [v EXCEPT !.i = @ + 1]
                                             ELSE UnzipReturns(v, out)
    /\ UnzipFrame

\* the loop is over: return nil
UnzipDone ==
    /\ unz.pos = "entries"
    /\ unz.i > Len(unz.archive)
    /\ unz' = UnzipReturns(unz, "nil")
    /\ UnzipFrame

\* what Update finds under extractedRoot after unzip returned nil
ExtractedOf(u, bin, sha, mtime) ==
    LET root == Clean(u.dst)
        at(name) == [root EXCEPT !.elems = @ \o name]
    IN  [root |-> root \in u.dirs,
         sub |-> at(<<DirD>>) \in u.dirs,
         binAt |-> IF at(<<DirD, bin>>) \in u.files THEN "sub"
                   ELSE IF at(<<bin>>) \in u.files THEN "root" ELSE "none",
         sha |-> sha, mtime |-> mtime]

\* Update after unzip returned: an error is recorded as PKG_EXTRACT, logged as
\* PKG_EXTRACT_FAILED, saved and returned; otherwise PKG_EXTRACT_DONE
UnzipTaggedWith(p, ok, check, lgN) ==
    /\ pc[p] = "extract"
    /\ unz.pos = "returned"
    /\ unz' = [unz EXCEPT !.pos = "tagged"]
    /\ IF unz.err # "nil"
       THEN /\ FailStage(p, ok, check, lgN, log, hist, ErrCodePkgExtract, unz.err,
                         "PKG_EXTRACT_FAILED", "extract")
            /\ UNCHANGED <<extracted, clock>>
       ELSE /\ clock' = clock + 1
            /\ extracted' = ExtractedOf(unz, effective.bin, pkg.sha, clock + 1)
            /\ LogIs(check, lgN, logEvent(log, ok, "PKG_EXTRACT_DONE", ""))
            /\ Goto(p, "source_dir")
            /\ UNCHANGED <<result, lockFile, st, runtime, hist>>
    /\ UNCHANGED <<current, dirs, staging, effective, artifact, pkg,
                   prevTarget, sw, opts, txns, prev, batch, run, term, disco>>

UnzipTagged == UnzipTaggedWith(Self, opts.logOk, TRUE, log')

NextUnzip == UnzipOpen \/ UnzipMkdirDst \/ UnzipEntry \/ UnzipDone \/ UnzipTagged

SpecUnzip == InitUnzip /\ [][NextUnzip]_vars

\* ------------------------------------------------------------------------
\* C32: extraction rejects every archive with an entry whose cleaned path is
\* not under the cleaned destination, and writes nothing outside the
\* destination.
\* ------------------------------------------------------------------------
\* path is the directory root or lies below it, element by element
IsUnder(root, path) ==
    /\ path.abs = root.abs
    /\ Len(path.elems) >= Len(root.elems)
    /\ SubSeq(path.elems, 1, Len(root.elems)) = root.elems

\* the entry's place in the file system is not strictly below dst
Escapes(dst, name) ==
    LET target == Clean(Join(dst, name))
    IN  ~IsUnder(Clean(dst), target) \/ target = Clean(dst)

HasEscapingEntry(u) == \E k \in 1..Len(u.archive) : Escapes(u.dst, u.archive[k])

C32_NoWriteOutsideDst ==
    /\ \A w \in unz.written : IsUnder(Clean(unz.dst), w)
    /\ unz.written = (unz.dirs \cup unz.files) \ Ancestry(Dir(Clean(unz.dst)))
    /\ unz.pos \in {"returned", "tagged"} /\ HasEscapingEntry(unz) => unz.err # "nil"
    /\ unz.pos = "tagged" /\ HasEscapingEntry(unz) =>
          /\ st.last_error_code = ErrCodePkgExtract
          /\ st.pending_version = EmptyStr
          /\ result[Self] = unz.err
          /\ extracted = NoExtract
          /\ log[Len(log)] = [event |-> "PKG_EXTRACT_FAILED",
                                error_code |-> ErrCodePkgExtract]
    /\ unz.err = "invalid zip path" =>
          /\ Escapes(unz.dst, unz.archive[unz.i])
          /\ \A k \in 1..(unz.i - 1) : ~Escapes(unz.dst, unz.archive[k])
    /\ unz.err = "nil" =>
          \A k \in 1..Len(unz.archive) :
              Clean(Join(unz.dst, unz.archive[k])) \in
                 (IF unz.kinds[k] THEN unz.dirs ELSE unz.files)

\* a file entry inside dst was written, then an entry that climbs out to a
\* sibling of dst was rejected, and Update has recorded the failure
C32_Witness ==
    /\ unz.pos = "tagged"
    /\ unz.err = "invalid zip path"
    /\ st.last_error_code = ErrCodePkgExtract
    /\ HasEvent("PKG_EXTRACT_FAILED")
    /\ unz.i = 2
    /\ unz.kinds = <<FALSE>>
    /\ unz.archive[2] = <<DotDot, <<"e", "x">>>>
    /\ Cardinality(unz.written) = 2
    /\ Cardinality(unz.files) = 1

\* ------------------------------------------------------------------------
\* One transaction on an app with version 1 installed or on a fresh one, with
\* terminateProcesses run call by call beside the processes it stops
\* ------------------------------------------------------------------------
SpecTerm == InitLive /\ [][Next]_vars

\* ------------------------------------------------------------------------
\* C33: graceful close of every matched PID, then a non-forced termination
\* of every matched PID, then the wait loop; a forced kill only after the
\* deadline and only to PIDs of the enumeration made then, never to a PID
\* that has exited; when the forced kills succeed Update goes on.
\* ------------------------------------------------------------------------
IsPrefixSeq(a, b) == Len(a) <= Len(b) /\ SubSeq(b, 1, Len(a)) = a

TermRunning == term.pos # "none"

\* close, then soft kill, then the loop, each over all matched PIDs in order
StopOrder ==
    /\ IsPrefixSeq(term.closed, term.pids)
    /\ IsPrefixSeq(term.soft, term.pids)
    /\ term.soft # << >> => term.closed = term.pids
    /\ (term.polled \/ term.expired \/ term.pos \in {"poll", "final", "force"})
          => term.soft = term.pids /\ term.pids # << >>

\* forced kills come after the deadline and follow the last enumeration
ForceAfterDeadline ==
    term.forced # << >> =>
        /\ term.expired
        /\ IsPrefixSeq(term.forced, term.remain)

\* terminateProcesses returned nil after forced kills
ForceKillsSucceeded ==
    /\ term.pos = "returned"
    /\ term.forced # << >>
    /\ term.err = "nil"

\* Update has taken the return of a terminateProcesses that logged forced
\* kills and no failed one
ForceKillsTaken ==
    /\ pc[Self] \notin {"idle", "stop_wait"}
    /\ HasEvent("SWITCH_PROCESS_FORCE_KILL")
    /\ ~HasEvent("SWITCH_PROCESS_FORCE_FAILED")

C33_ForceOnlySurvivors ==
    /\ TermRunning =>
          /\ StopOrder
          /\ ForceAfterDeadline
          /\ term.forcedGone = {}
          /\ ForceKillsSucceeded => term.alive = {}
    /\ ForceKillsTaken => hist.switched /\ HasEvent("SWITCH_PROCESS_DONE")

\* ------------------------------------------------------------------------
\* Discovery at the start of Update, call by call
\* ------------------------------------------------------------------------
\* Update is called with a manifest; UseCheckver is set or not; the release
\* endpoint answers; the capture map is visited in some order by each call of
\* renderTemplate
InitCheckver ==
    /\ NoTransaction
    /\ batch = NoBatch
    /\ run = NoRun
    /\ unz = NoUnzip
    /\ term = NoTerm
    /\ \E man \in Manifests, use \in BOOLEAN :
       \E net \in IF use /\ man.checkver THEN NetAnswers ELSE {NoAnswer} :
       \E o0 \in Orders(DOMAIN net.captures), o1 \in Orders(DOMAIN net.captures),
          o2 \in Orders(DOMAIN net.captures) :
          disco = [pos |-> "update", man |-> man, use |-> use, net |-> net,
                o0 |-> o0, o1 |-> o1, o2 |-> o2,
                disc |-> DiscNoop, discovered |-> FALSE,
                effective |-> man, err |-> "none", artifact |-> NoArtifact]

CheckverFrame == UNCHANGED <<pc, result, lockFile, txnVarsOfApp, batch, run, unz, term>>

\* what Update does to the transaction once discovery is through, as BeginOn
\* on the inputs of this call
CvTakes ==
    /\ pc[Self] = "idle"
    /\ txns < MaxTxns
    /\ BeginOn(Self, TRUE, TRUE, TRUE, log', disco.man, disco.use, disco.net,
               disco.o0, disco.o1, disco.o2)

\* Update: effective := *man, and the call of DiscoverLatest when UseCheckver is set
CvDiscover ==
    /\ disco.pos = "update"
    /\ IF disco.use
       THEN LET disc == DiscoverLatest(disco.man, disco.net, disco.o0)
            IN  disco' = [disco EXCEPT !.pos = "apply", !.disc = disc, !.discovered = TRUE]
       ELSE disco' = [disco EXCEPT !.pos = "resolve"]
    /\ CheckverFrame

\* applyCheckver after DiscoverLatest returned; Update returns its error
CvApply ==
    /\ disco.pos = "apply"
    /\ LET out == applyCheckver(disco.man, disco.disc, disco.o1, disco.o2)
       IN  /\ disco' = [disco EXCEPT
                          !.pos = IF out.err = "nil" THEN "resolve" ELSE "returned",
                          !.effective = out.man,
                          !.err = out.err]
           /\ IF out.err = "nil" THEN CheckverFrame ELSE CvTakes

\* Update: ResolveArtifact64 on the effective manifest; its error is returned,
\* otherwise UPDATE_BEGIN is logged and acquireLock is next
CvResolve ==
    /\ disco.pos = "resolve"
    /\ LET ra == ResolveArtifact64(disco.effective)
       IN  disco' = [disco EXCEPT !.pos = IF ra.ok THEN "begin" ELSE "returned",
                            !.err = ra.err,
                            !.artifact = ra.artifact]
    /\ CvTakes

NextCheckver == CvDiscover \/ CvApply \/ CvResolve

SpecCheckver == InitCheckver /\ [][NextCheckver]_vars

\* DiscoverLatest returned without error a version that is empty or the version
\* of the manifest, and applyCheckver has returned
NothingNewer ==
    /\ disco.pos \in {"resolve", "begin", "returned"}
    /\ disco.discovered
    /\ disco.disc.err = "nil"
    /\ disco.disc.version \in {EmptyStr, disco.man.version}

\* the part of a manifest that discovery may rewrite
Discoverable(man) == [version |-> man.version, arch |-> man.arch]

\* C34: with UseCheckver set, when DiscoverLatest returns without error a
\* version that is empty or equal to the version of the manifest, applyCheckver
\* returns nil, version and architecture.64bit (url, hash, extract_dir) of the
\* effective manifest are those of the manifest given, and Update goes on to
\* ResolveArtifact64 with the result it has for the manifest as given
C34_NothingNewerIsNoop ==
    NothingNewer =>
        /\ disco.pos = "resolve" => disco.err = "nil"
        /\ Discoverable(disco.effective) = Discoverable(disco.man)
        /\ disco.effective = disco.man
        /\ disco.pos \in {"begin", "returned"} =>
              /\ disco.err = ResolveArtifact64(disco.man).err
              /\ disco.artifact = ResolveArtifact64(disco.man).artifact
              /\ (disco.pos = "begin") = ResolveArtifact64(disco.man).ok
              /\ artifact = disco.artifact
              /\ (disco.pos = "begin") = HasEvent("UPDATE_BEGIN")

\* the release asset carries the version the manifest already has, and Update
\* has reached UPDATE_BEGIN with the artifact of the manifest
C34_Witness ==
    /\ NothingNewer
    /\ disco.pos = "begin"
    /\ disco.man.checkver
    /\ disco.disc.captures # << >>
    /\ disco.disc.version = disco.man.version
    /\ disco.man.auto.url # EmptyStr
    /\ disco.artifact.url = disco.man.arch.url

\* DiscoverLatest on a manifest without checkver fields: the empty version
C34_WitnessEmpty ==
    /\ NothingNewer
    /\ disco.pos = "begin"
    /\ disco.disc.version = EmptyStr

\* ------------------------------------------------------------------------
\* renderTemplate on templates and capture maps
\* ------------------------------------------------------------------------
NameVb == <<"v", "b">>

Seven == <<"7">>

\* Templates of checkver.replace, autoupdate url and extract_dir: each form of
\* placeholder for the names v, b and vb, alone and combined
Templates ==
    { EmptyStr,
      <<"x">>,
      <<"$", "{", "v", "}">>,
      <<"$", "v">>,
      <<"$", "m", "a", "t", "c", "h", "V">>,
      <<"$", "{", "v", "b", "}">>,
      <<"$", "v", "b">>,
      <<"$", "m", "a", "t", "c", "h", "V", "b">>,
      <<"$", "{", "v", "}", "-", "$", "{", "b", "}">>,
      <<"$", "v", "-", "$", "b">>,
      <<"$", "m", "a", "t", "c", "h", "V", "-", "$", "m", "a", "t", "c", "h", "B">>,
      <<"$", "v", "-", "$", "{", "v", "}", "-", "$", "m", "a", "t", "c", "h", "V">> }

\* Capture maps of a regex with named groups v, b, vb
RenderCaptures ==
    { (NameV :> V2),
      (NameV :> V2) @@ (NameB :> Seven),
      (NameV :> V2) @@ (NameVb :> Seven),
      (NameV :> V2) @@ (NameB :> V1) @@ (NameVb :> Seven) }

InitRender ==
    /\ NoTransaction
    /\ batch = NoBatch
    /\ run = NoRun
    /\ unz = NoUnzip
    /\ term = NoTerm
    /\ \E template \in Templates, captures \in RenderCaptures :
       \E order \in Orders(DOMAIN captures) :
          disco = [pos |-> "render", template |-> template, captures |-> captures,
                   order |-> order, k |-> 1, out |-> EmptyStr]

\* renderTemplate: the empty template returns at once; out := template
RenderEnter ==
    /\ disco.pos = "render"
    /\ disco' = IF disco.template = EmptyStr
                THEN [disco EXCEPT !.pos = "returned", !.out = EmptyStr]
                ELSE [disco EXCEPT !.pos = "range", !.out = disco.template]
    /\ CheckverFrame

\* one iteration of the loop over the capture map
RenderIterate ==
    /\ disco.pos = "range"
    /\ disco.k <= Len(disco.order)
    /\ LET name == disco.order[disco.k]
       IN  disco' = [disco EXCEPT !.out = RenderOne(disco.out, name, disco.captures[name]),
                                  !.k = @ + 1]
    /\ CheckverFrame

RenderReturn ==
    /\ disco.pos = "range"
    /\ disco.k > Len(disco.order)
    /\ disco' = [disco EXCEPT !.pos = "returned"]
    /\ CheckverFrame

NextRender == RenderEnter \/ RenderIterate \/ RenderReturn

SpecRender == InitRender /\ [][NextRender]_vars

\* one name of the capture map is the beginning of another
HasPrefixNames(captures) ==
    \E a, b \in DOMAIN captures : a # b /\ IsPrefixSeq(a, b)

\* the step model computes renderTemplate
RenderAgrees ==
    disco.pos = "returned"
        => disco.out = renderTemplate(disco.template, disco.captures, disco.order)

\* C35: the value renderTemplate returns for a template and a capture map is
\* the same for every order in which the map is visited, also when one capture
\* name is the beginning of another
C35_RenderOrderIndependent ==
    disco.pos = "returned"
        => \A o \in Orders(DOMAIN disco.captures) :
               renderTemplate(disco.template, disco.captures, o) = disco.out

\* the same without capture names that begin one another
RenderOrderIndependentNoPrefix ==
    (disco.pos = "returned" /\ ~HasPrefixNames(disco.captures))
        => \A o \in Orders(DOMAIN disco.captures) :
               renderTemplate(disco.template, disco.captures, o) = disco.out

\* ------------------------------------------------------------------------
\* The recorded error after a successful transaction
\* ------------------------------------------------------------------------
NoLastError(s) == s.last_error_code = "" /\ s.last_error_message = ""

\* C36: after every transaction that returns nil (full install, fast path or
\* declined switch) the persisted last_error_code and last_error_message are
\* empty, whatever earlier transactions left in runtime.json
C36_SuccessClearsLastError ==
    SuccessExit => runtime.exists /\ NoLastError(runtime.s)

\* the same for the full install path alone
SuccessByInstallClearsLastError ==
    (SuccessExit /\ hist.exit = "installed") => runtime.exists /\ NoLastError(runtime.s)

\* a success exit other than the full install path leaves last_error_code and
\* last_error_message as the transaction loaded them
SuccessElsewhereKeepsLastError ==
    (SuccessExit /\ hist.exit # "installed")
        => /\ runtime.exists
           /\ runtime.s.last_error_code = hist.runtime0.s.last_error_code
           /\ runtime.s.last_error_message = hist.runtime0.s.last_error_message

\* ------------------------------------------------------------------------
\* The pointer between transactions
\* ------------------------------------------------------------------------
\* current does not exist, or it is a link or a marker directory whose target
\* is a version directory of the app
CurrentSound ==
    \/ current.form = "absent"
    \/ /\ current.form \in {"link", "marker"}
       /\ DirAt(resolveCurrentTarget(current)) \in DOMAIN dirs

\* C37: whenever no transaction holds the lock of the app, current is absent
\* or resolves to an existing version directory
C37_CurrentNeverDangles ==
    pc[Self] \in NotHolding => CurrentSound

\* ------------------------------------------------------------------------
\* The pointer after a failed health check
\* ------------------------------------------------------------------------
\* Update has returned the error of the health check (the rollback did not fail)
FailedWithHealthcheck ==
    /\ pc[Self] = "done"
    /\ hist.exit = "healthcheck"
    /\ st.last_error_code = ErrCodeSwitchHealthcheck

\* C38: after a transaction fails with SWITCH_HEALTHCHECK, current does not
\* resolve to the v<X> directory of that transaction, also when there was no
\* previous target or the previous target was the same v<X>
C38_FailedVersionNotCurrent ==
    FailedWithHealthcheck
        => resolveCurrentTarget(current) # VersionDir(effective.version)

\* the same when a previous target other than v<X> was recorded
FailedVersionNotCurrentAfterRollback ==
    (FailedWithHealthcheck /\ prevTarget \notin {EmptyStr, VersionDir(effective.version)})
        => resolveCurrentTarget(current) # VersionDir(effective.version)

\* ------------------------------------------------------------------------
\* What makes a transaction end
\* ------------------------------------------------------------------------
\* the steps of Update, those of terminateProcesses outside its wait loop
\* included
CallsOfUpdate ==
    \/ Begin(Self)
    \/ TxnCalls
    \/ TermCalls

\* the loop condition time.Now().Before(deadline) is false: the loop is left
TermPollExpired == TermPoll /\ term.expired

\* every call Update and terminateProcesses make returns, and the clock
\* advances past the stop deadline while the loop sleeps and polls; nothing
\* is assumed of what the polls find
CallsReturn ==
    /\ WF_vars(CallsOfUpdate \/ TermPollExpired)
    /\ WF_vars(DeadlineExpires)

SpecLive == InitLive /\ [][Next]_vars /\ CallsReturn

InTransaction == pc[Self] \notin {"idle", "done"}

\* C39: provided every collaborator call returns, a transaction that has
\* started returns, and it has a result exactly when it has returned
C39_TransactionTerminates ==
    /\ InTransaction ~> (pc[Self] = "done")
    /\ [](pc[Self] = "done" <=> result[Self] # "none")
    /\ [](term.pos \in {"poll", "final", "force"} ~> term.pos \in {"returned", "none"})

\* a transaction that waited for the processes until the deadline, killed the
\* survivors by force and completed
C39_Witness ==
    /\ pc[Self] = "done"
    /\ result[Self] = "nil"
    /\ hist.exit = "installed"
    /\ HasEvent("SWITCH_PROCESS_FORCE_KILL")

\* ------------------------------------------------------------------------
\* The exit of run and the background transaction
\* ------------------------------------------------------------------------
\* the process of run has exited while Update was between its first step and
\* its return
CutShort == run.pos = "exited" /\ result[Self] = "exited"

\* what a transaction in progress keeps on disk
HalfFinished ==
    \/ lockFile.kind # "absent"
    \/ runtime.exists /\ runtime.s.pending_version # EmptyStr
    \/ staging # {}

\* C40: the process of run does not exit while the background transaction is
\* in progress: when it has exited, the transaction it started has returned,
\* the lock is released and no pending_version or staging directory of a
\* transaction that was cut short is left
C40_RunWaitsForUpdate ==
    run.pos = "exited" =>
        /\ run.spawned => ((run.update = "config" \/ pc[Self] = "done") /\ ~CutShort)
        /\ lockFile.kind = "absent"

\* the process exited in the middle of the download: lock file, pending_version
\* and staging directory stay behind
CutShortHalfFinished ==
    /\ CutShort
    /\ lockFile.kind # "absent"
    /\ runtime.exists /\ runtime.s.pending_version # EmptyStr
    /\ staging # {}

====
